---- MODULE Spec2Model ----
(***************************************************************************)
(* State-machine model of the 3D solar system engine core.                 *)
(*                                                                         *)
(*   CameraManager  src/src/Scene/CameraManager.cpp                        *)
(*   Renderer       src/src/Renderer/Renderer.cpp                          *)
(*   Mesh           src/src/Renderer/Mesh.cpp                              *)
(*   Transform      src/src/Scene/Transform.cpp                            *)
(*   Camera         src/src/Scene/Camera.cpp                               *)
(*   Input          src/src/Core/Input.cpp                                 *)
(*   Application    src/Application.cpp                                    *)
(*   SceneNode      src/src/Scene/SceneNode.cpp                            *)
(*                                                                         *)
(* Each public operation is one action that models the whole handler.      *)
(* Pointers are small integers (0 is nullptr); a std::unordered_map is a   *)
(* function on the set of its keys; a std::vector is a sequence.           *)
(***************************************************************************)
EXTENDS Integers, Sequences, FiniteSets, TLC

VARIABLES
    cameras,        \* CameraManager::cameras        name -> CameraRenderData
    activeCameras,  \* CameraManager::activeCameras  vector of CameraRenderData
    mainCamera,     \* CameraManager::mainCamera     Camera* (0 = nullptr)
    allocated,      \* number of Camera objects obtained from `new` so far
    deleted,        \* the Camera pointers handed to `delete`, in order
    destroyed,      \* TRUE once ~CameraManager has run
    shader,         \* Renderer::shader (0 = null unique_ptr, else program id)
    sceneObjects,   \* Renderer::sceneObjects  vector of RenderObject pointers
    boundFBO,       \* the framebuffer currently bound in the GL context
    glCalls,        \* the graphics calls issued by the most recent operation
    frameCameras,   \* the camera list the caller hands to RenderFrame
    toggle,         \* deactivate/reactivate history of SetActive
    meshes,         \* the Mesh objects: lifetime, VAO, VBO, EBO, vector sizes
    gpu,            \* the GL context's object names: generated and deleted
    sphere,         \* the arguments and the output of the last Mesh::CreateSphere
    transform,      \* a Transform object: position, rotation, scale, dirty flag and caches
    cameraState,    \* a Camera object: position, yaw, pitch and front
    input,          \* the statics of Input: keyStates, mousePos, mouseDelta, firstMouse
    app,            \* Application::Run: position in the loop, running, frame counts
    nodes,          \* SceneNode objects: parent pointer, children, local matrix
    lastCall        \* the most recent operation, its arguments and outcome

vars == <<cameras, activeCameras, mainCamera, allocated, deleted, destroyed,
          shader, sceneObjects, boundFBO, glCalls, frameCameras, toggle,
          meshes, gpu, sphere, transform, cameraState, input, app, nodes, lastCall>>

cmVars == <<cameras, activeCameras, mainCamera, allocated, deleted, destroyed, toggle>>

rVars == <<shader, sceneObjects, boundFBO, frameCameras>>

\* state of the units other than CameraManager and Renderer
unitVars == <<meshes, gpu, sphere, transform, cameraState, input, app, nodes>>

----------------------------------------------------------------------------
(* Bounds of the model                                                      *)

\* AddCamera is not taken once activeCameras holds this many entries
MaxActive == 3

\* CreateMainCamera is not taken after this many allocations
MaxAlloc == 2

----------------------------------------------------------------------------
(* Values                                                                   *)

\* Camera* camera = nullptr
NullCamera == 0

\* Camera objects owned outside the manager (AddCamera doc: "owned externally")
ExternalCameras == {1}

\* the k-th Camera returned by `new Camera(...)` in CreateMainCamera
NewCamera(k) == Cardinality(ExternalCameras) + k

\* camera identifiers used in the header's documentation, plus the fixed
\* name under which CreateMainCamera registers
Names == {"MainCamera", "minimap"}

\* (width, height) pairs offered to CreateMainCamera(int, int)
WindowSizes == {<<8, 6>>}

\* half the width of unsigned int, as a modulus: an unsigned int (32 bits) is
\* the pair <<high half, low half>> of its 16-bit halves
HalfModulus == 65536

\* conversion of an int to unsigned int (two's complement, modulo 2^32)
ToUInt(x) == << (x \div HalfModulus) % HalfModulus, x % HalfModulus >>

\* (viewport, framebuffer, layer) argument triples offered to AddCamera and
\* to the four-argument CreateMainCamera; a viewport is a glm::ivec4
\* (x, y, width, height)
RenderTargets == {<<<<0, 0, 8, 6>>, ToUInt(0), 0>>, <<<<6, 4, 2, 2>>, ToUInt(1), 1>>}

\* struct CameraRenderData
CameraRenderData(name, camera, active, viewport, framebuffer, renderLayer) ==
    [name |-> name, camera |-> camera, active |-> active, viewport |-> viewport,
     framebuffer |-> framebuffer, renderLayer |-> renderLayer]

\* a default-constructed CameraRenderData
DefaultData == CameraRenderData("", NullCamera, TRUE, <<0, 0, 0, 0>>, ToUInt(0), 0)

\* record of one operation: its name, the name/flag arguments, the data
\* argument and the outcome ("ok" or "NotFound" for std::runtime_error)
Call(op, name, flag, data, result) ==
    [op |-> op, name |-> name, flag |-> flag, data |-> data, result |-> result]

NoToggle == [phase |-> "none", entry |-> DefaultData]

----------------------------------------------------------------------------
(* std::unordered_map and std::vector helpers                               *)

\* cameras.find(name) != cameras.end()
Registered(name) == name \in DOMAIN cameras

\* variant of MapAssign: cameras.emplace(name, data), which keeps an entry
\* that is already there
MapEmplace(map, name, data) ==
    [n \in DOMAIN map \cup {name} |-> IF n \in DOMAIN map THEN map[n] ELSE data]

\* map[name] = data : insert or overwrite
MapAssign(map, name, data) ==
    [n \in DOMAIN map \cup {name} |-> IF n = name THEN data ELSE map[n]]

\* std::find_if(begin, end, name match): index of the first match, 0 for end()
FindByName(vec, name) ==
    IF \E i \in 1..Len(vec) : vec[i].name = name
    THEN CHOOSE i \in 1..Len(vec) :
            /\ vec[i].name = name
            /\ \A j \in 1..(i - 1) : vec[j].name # name
    ELSE 0

\* vector::erase(it)
Erase(vec, i) == [j \in 1..(Len(vec) - 1) |-> IF j < i THEN vec[j] ELSE vec[j + 1]]

----------------------------------------------------------------------------
(* CameraManager                                                            *)

\* inline accessor GetActiveCameras()
GetActiveCameras == activeCameras

\* the body of AddCamera as a state update on (cameras, activeCameras)
AddCameraEffect(name, camera, viewport, framebuffer, layer) ==
    LET data == CameraRenderData(name, camera, TRUE, viewport, framebuffer, layer)
    IN  /\ cameras' = MapAssign(cameras, name, data)
        /\ activeCameras' = Append(activeCameras, data)

AddCamera(name, camera, viewport, framebuffer, layer) ==
    /\ ~destroyed
    /\ Len(activeCameras) < MaxActive
    /\ AddCameraEffect(name, camera, viewport, framebuffer, layer)
    /\ toggle' = NoToggle
    /\ lastCall' = Call("AddCamera", name, TRUE,
                        CameraRenderData(name, camera, TRUE, viewport, framebuffer, layer),
                        "ok")
    /\ glCalls' = <<>>
    /\ UNCHANGED <<mainCamera, allocated, deleted, destroyed>>
    /\ UNCHANGED <<rVars, unitVars>>

\* CreateMainCamera(int windowWidth, int windowHeight)
CreateMainCamera(windowWidth, windowHeight) ==
    /\ ~destroyed
    /\ allocated < MaxAlloc
    /\ Len(activeCameras) < MaxActive
    /\ allocated' = allocated + 1
    /\ mainCamera' = NewCamera(allocated + 1)
    /\ AddCameraEffect("MainCamera", mainCamera', <<0, 0, windowWidth, windowHeight>>, ToUInt(0), 0)
    /\ toggle' = NoToggle
    /\ lastCall' = Call("CreateMainCamera", "MainCamera", TRUE,
                        CameraRenderData("MainCamera", mainCamera', TRUE,
                                         <<0, 0, windowWidth, windowHeight>>, ToUInt(0), 0),
                        "ok")
    /\ glCalls' = <<>>
    /\ UNCHANGED <<deleted, destroyed>>
    /\ UNCHANGED <<rVars, unitVars>>

\* CreateMainCamera(name, viewport, framebuffer, layer): `name` is not used,
\* the camera is registered as "MainCamera"
CreateMainCameraNamed(name, viewport, framebuffer, layer) ==
    /\ ~destroyed
    /\ allocated < MaxAlloc
    /\ Len(activeCameras) < MaxActive
    /\ allocated' = allocated + 1
    /\ mainCamera' = NewCamera(allocated + 1)
    /\ AddCameraEffect("MainCamera", mainCamera', viewport, framebuffer, layer)
    /\ toggle' = NoToggle
    /\ lastCall' = Call("CreateMainCamera", "MainCamera", TRUE,
                        CameraRenderData("MainCamera", mainCamera', TRUE,
                                         viewport, framebuffer, layer),
                        "ok")
    /\ glCalls' = <<>>
    /\ UNCHANGED <<deleted, destroyed>>
    /\ UNCHANGED <<rVars, unitVars>>

\* variant of SyncActiveList: the push_back of the reactivation branch is left out
SyncActiveListNoPush(vec, entry, active) ==
    LET vecIt == FindByName(vec, entry.name)
    IN  IF ~active
        THEN IF vecIt # 0 THEN Erase(vec, vecIt) ELSE vec
        ELSE IF vecIt # 0 THEN [vec EXCEPT ![vecIt] = entry]
                          ELSE vec

\* the update SetActive makes to activeCameras once the registry entry `entry`
\* (already carrying the new flag) has been written
SyncActiveList(vec, entry, active) ==
    LET vecIt == FindByName(vec, entry.name)
    IN  IF ~active
        THEN IF vecIt # 0 THEN Erase(vec, vecIt) ELSE vec
        ELSE IF vecIt # 0 THEN [vec EXCEPT ![vecIt] = entry]
                          ELSE Append(vec, entry)

\* variant of SetActive: cameras[name].active = active in place of find and
\* throw, so that an unregistered name gets a default-constructed entry
SetActiveSubscript(name, active) ==
    /\ ~destroyed
    /\ LET old   == IF Registered(name) THEN cameras[name] ELSE DefaultData
           entry == [old EXCEPT !.active = active]
       IN  /\ cameras' = MapAssign(cameras, name, entry)
           /\ activeCameras' = SyncActiveList(activeCameras, [entry EXCEPT !.name = name], active)
           /\ lastCall' = Call("SetActive", name, active, entry, "ok")
           /\ toggle' =
                IF ~active
                THEN [phase |-> "off", entry |-> old]
                ELSE IF toggle.phase = "off" /\ toggle.entry.name = name
                     THEN [phase |-> "on", entry |-> toggle.entry]
                     ELSE NoToggle
    /\ glCalls' = <<>>
    /\ UNCHANGED <<mainCamera, allocated, deleted, destroyed>>
    /\ UNCHANGED <<rVars, unitVars>>

SetActive(name, active) ==
    /\ ~destroyed
    /\ IF ~Registered(name)
       THEN /\ lastCall' = Call("SetActive", name, active, DefaultData, "NotFound")
            /\ toggle' = NoToggle
            /\ UNCHANGED <<cameras, activeCameras>>
       ELSE LET entry == [cameras[name] EXCEPT !.active = active]
            IN  /\ cameras' = [cameras EXCEPT ![name] = entry]
                /\ activeCameras' = SyncActiveList(activeCameras, entry, active)
                /\ lastCall' = Call("SetActive", name, active, entry, "ok")
                /\ toggle' =
                     IF ~active
                     THEN [phase |-> "off", entry |-> cameras[name]]
                     ELSE IF toggle.phase = "off" /\ toggle.entry.name = name
                          THEN [phase |-> "on", entry |-> toggle.entry]
                          ELSE NoToggle
    /\ glCalls' = <<>>
    /\ UNCHANGED <<mainCamera, allocated, deleted, destroyed>>
    /\ UNCHANGED <<rVars, unitVars>>

\* GetCameraData: the lookup; no caller in the repository writes through the
\* returned reference
GetCameraData(name) ==
    /\ ~destroyed
    /\ IF ~Registered(name)
       THEN lastCall' = Call("GetCameraData", name, FALSE, DefaultData, "NotFound")
       ELSE lastCall' = Call("GetCameraData", name, FALSE, cameras[name], "ok")
    /\ toggle' = NoToggle
    /\ glCalls' = <<>>
    /\ UNCHANGED <<cameras, activeCameras, mainCamera, allocated, deleted, destroyed>>
    /\ UNCHANGED <<rVars, unitVars>>

\* ~CameraManager(): deletes mainCamera if set; the members are destroyed after
\* the body
Destructor ==
    /\ ~destroyed
    /\ destroyed' = TRUE
    /\ deleted' = IF mainCamera # NullCamera THEN Append(deleted, mainCamera) ELSE deleted
    /\ mainCamera' = NullCamera
    /\ cameras' = [n \in {} |-> DefaultData]
    /\ activeCameras' = <<>>
    /\ toggle' = NoToggle
    /\ lastCall' = Call("~CameraManager", "", FALSE, DefaultData, "ok")
    /\ glCalls' = <<>>
    /\ UNCHANGED allocated
    /\ UNCHANGED <<rVars, unitVars>>

----------------------------------------------------------------------------
(* Renderer                                                                 *)

\* std::unique_ptr<Shader> shader, empty until Initialize()
NullShader == 0

\* Shader::programID of the program linked by Initialize()
ShaderProgram == 1

\* the RenderObjects the application owns; the renderer holds pointers (keys)
\* to them.  Object 3 carries a moved-from mesh: VAO = 0 and no indices;
\* object 4 a mesh constructed from an empty index list.  Objects 5, 6 and 7
\* are the sun, earth and moon of Application::InitScene.
ObjectPool ==
    [o \in 1..7 |->
        CASE o = 1 -> [renderLayer |-> 0, VAO |-> 1, indexCount |-> 3]
          [] o = 2 -> [renderLayer |-> 1, VAO |-> 2, indexCount |-> 3]
          [] o = 3 -> [renderLayer |-> 0, VAO |-> 0, indexCount |-> 0]
          [] o = 4 -> [renderLayer |-> 1, VAO |-> 3, indexCount |-> 0]
          [] o = 5 -> [renderLayer |-> 0, VAO |-> 1, indexCount |-> 3]
          [] o = 6 -> [renderLayer |-> 0, VAO |-> 2, indexCount |-> 3]
          [] o = 7 -> [renderLayer |-> 0, VAO |-> 3, indexCount |-> 3]]

\* the objects handed to AddRenderObject when the renderer is driven directly
RendererObjects == 1..4

\* Application::Render submits sun, earth, moon in this order
SceneOrder == <<5, 6, 7>>

\* the CameraRenderData entries a caller's camera list is made of
FrameEntries ==
    { CameraRenderData("MainCamera", 1, TRUE,  <<0, 0, 8, 6>>, ToUInt(0), 0),
      CameraRenderData("minimap",    1, TRUE,  <<6, 4, 2, 2>>, ToUInt(1), 1),
      CameraRenderData("offscreen",  1, TRUE,  <<0, 0, 8, 6>>, ToUInt(-1), 0),
      CameraRenderData("paused",     1, FALSE, <<0, 0, 8, 6>>, ToUInt(1), 0),
      CameraRenderData("detached",   NullCamera, TRUE, <<6, 4, 2, 2>>, ToUInt(1), 1) }

\* the camera lists handed to RenderFrame have at most this many entries
MaxCams == 2

\* AddRenderObject is not taken once sceneObjects holds this many pointers
MaxObjects == 2

\* sequences over S of length at most n
RECURSIVE SeqsUpTo(_, _)
SeqsUpTo(S, n) ==
    IF n = 0 THEN {<<>>}
    ELSE LET shorter == SeqsUpTo(S, n - 1)
         IN  shorter \cup {Append(q, x) : q \in shorter, x \in S}

\* one entry of the call log: the call, the camera pass (index into the camera
\* list) and object (index into sceneObjects) it belongs to, its argument, and
\* the framebuffer bound when it is issued
Ev(call, cam, obj, arg, fbo) ==
    [call |-> call, cam |-> cam, obj |-> obj, arg |-> arg, fbo |-> fbo]

\* Renderer::Clear
Clear(cam, fbo) ==
    << Ev("glClearColor", cam, 0, 0, fbo), Ev("glClear", cam, 0, 0, fbo) >>

\* variant of MeshDraw: the test for an empty index list is left out
MeshDrawNoIndexTest(mesh, cam, obj, fbo) ==
    IF mesh.VAO = 0
    THEN << Ev("Mesh::Draw", cam, obj, mesh.VAO, fbo),
            Ev("cerr [Mesh] Error: Cannot draw", cam, obj, mesh.VAO, fbo) >>
    ELSE << Ev("Mesh::Draw", cam, obj, mesh.VAO, fbo),
            Ev("glBindVertexArray", cam, obj, mesh.VAO, fbo),
            Ev("glDrawElements", cam, obj, mesh.indexCount, fbo),
            Ev("glBindVertexArray", cam, obj, 0, fbo) >>

\* Mesh::Draw
MeshDraw(mesh, cam, obj, fbo) ==
    IF mesh.VAO = 0 \/ mesh.indexCount = 0
    THEN << Ev("Mesh::Draw", cam, obj, mesh.VAO, fbo),
            Ev("cerr [Mesh] Error: Cannot draw", cam, obj, mesh.VAO, fbo) >>
    ELSE << Ev("Mesh::Draw", cam, obj, mesh.VAO, fbo),
            Ev("glBindVertexArray", cam, obj, mesh.VAO, fbo),
            Ev("glDrawElements", cam, obj, mesh.indexCount, fbo),
            Ev("glBindVertexArray", cam, obj, 0, fbo) >>

\* variant of LayerMatches: the layer test is left out
AnyLayer(object, camData) == TRUE

\* the layer test at the head of DrawScene's loop body (`continue` when FALSE)
LayerMatches(object, camData) == object.renderLayer = camData.renderLayer

\* the body of DrawScene's loop for the object at sceneObjects[obj]
DrawObject(camData, cam, obj, fbo) ==
    LET object == ObjectPool[sceneObjects[obj]]
    IN  IF ~LayerMatches(object, camData)
        THEN <<>>
        ELSE << Ev("glUniformMatrix4fv uModel", cam, obj, 0, fbo),
                Ev("glUniformMatrix4fv uView", cam, obj, 0, fbo),
                Ev("glUniformMatrix4fv uProjection", cam, obj, 0, fbo),
                Ev("glUniformMatrix3fv uNormalMatrix", cam, obj, 0, fbo) >>
             \o MeshDraw(object, cam, obj, fbo)
             \o << Ev("glGetError", cam, obj, 0, fbo) >>

\* variant of DrawObjects: the list is walked from its end
RECURSIVE DrawObjectsBackwards(_, _, _, _)
DrawObjectsBackwards(camData, cam, obj, fbo) ==
    IF obj > Len(sceneObjects) THEN <<>>
    ELSE DrawObjectsBackwards(camData, cam, obj + 1, fbo) \o DrawObject(camData, cam, obj, fbo)

\* the loop `for (const auto* obj : sceneObjects)` from index obj on
RECURSIVE DrawObjects(_, _, _, _)
DrawObjects(camData, cam, obj, fbo) ==
    IF obj > Len(sceneObjects) THEN <<>>
    ELSE DrawObject(camData, cam, obj, fbo) \o DrawObjects(camData, cam, obj + 1, fbo)

\* Renderer::DrawScene(camData, layer); the parameter `layer` is not used.
\* The std::cout diagnostics guarded by the static `firstFrame` issue no
\* graphics call and are left out of the log.
DrawScene(camData, cam, fbo) ==
    IF shader = NullShader
    THEN << Ev("DrawScene", cam, 0, 0, fbo),
            Ev("cerr [Renderer] ERROR: Shader is null", cam, 0, 0, fbo) >>
    ELSE << Ev("DrawScene", cam, 0, 0, fbo),
            Ev("glUseProgram", cam, 0, shader, fbo),
            Ev("glUniform3fv uLightDir", cam, 0, 0, fbo) >>
         \o DrawObjects(camData, cam, 1, fbo)
         \o << Ev("glUseProgram", cam, 0, 0, fbo) >>

\* variant of CameraPass: inactive entries and entries without a camera are
\* not skipped
CameraPassNoSkip(cams, cam, st) ==
    LET camData == cams[cam]
        rebind == camData.framebuffer # st.currentFBO
        bound  == IF rebind THEN camData.framebuffer ELSE st.bound
        bindEv == IF rebind
                  THEN << Ev("glBindFramebuffer", cam, 0, camData.framebuffer, bound) >>
                  ELSE <<>>
    IN  [calls |-> st.calls \o bindEv
                      \o << Ev("glViewport", cam, 0, camData.viewport, bound) >>
                      \o Clear(cam, bound)
                      \o DrawScene(camData, cam, bound),
         bound |-> bound,
         currentFBO |-> IF rebind THEN camData.framebuffer ELSE st.currentFBO]

\* the body of RenderFrame's loop for cams[cam]; st = [calls, bound, currentFBO]
CameraPass(cams, cam, st) ==
    LET camData == cams[cam]
    IN  IF ~camData.active \/ camData.camera = NullCamera
        THEN st
        ELSE LET rebind == camData.framebuffer # st.currentFBO
                 bound  == IF rebind THEN camData.framebuffer ELSE st.bound
                 bindEv == IF rebind
                           THEN << Ev("glBindFramebuffer", cam, 0, camData.framebuffer, bound) >>
                           ELSE <<>>
             IN  [calls |-> st.calls \o bindEv
                               \o << Ev("glViewport", cam, 0, camData.viewport, bound) >>
                               \o Clear(cam, bound)
                               \o DrawScene(camData, cam, bound),
                  bound |-> bound,
                  currentFBO |-> IF rebind THEN camData.framebuffer ELSE st.currentFBO]

\* the loop `for (const auto& camData : cameras)` from index cam on
RECURSIVE CameraLoop(_, _, _)
CameraLoop(cams, cam, st) ==
    IF cam > Len(cams) THEN st
    ELSE CameraLoop(cams, cam + 1, CameraPass(cams, cam, st))

\* variant of EarlyReturn: the empty-list check is left out
NoEarlyReturn(cams) == FALSE

\* the early return of RenderFrame
EarlyReturn(cams) == cams = <<>>

\* variant of FinishFrame: the default framebuffer is not bound again
LeaveBound(st) == st

\* the statements after RenderFrame's loop
FinishFrame(st) ==
    [calls |-> Append(st.calls, Ev("glBindFramebuffer", 0, 0, ToUInt(0), ToUInt(0))),
     bound |-> ToUInt(0), currentFBO |-> st.currentFBO]

\* Renderer::RenderFrame as a function of the camera list and the framebuffer
\* bound on entry: the calls it issues and the framebuffer bound on return
RenderFrameResult(cams, bound) ==
    LET st0 == [calls |-> <<>>, bound |-> bound, currentFBO |-> ToUInt(-1)]
    IN  IF EarlyReturn(cams) THEN st0
        ELSE FinishFrame(CameraLoop(cams, 1, st0))

RenderFrame(cams) ==
    LET result == RenderFrameResult(cams, boundFBO)
    IN  /\ glCalls' = result.calls
        /\ boundFBO' = result.bound
        /\ lastCall' = Call("RenderFrame", "", FALSE, DefaultData, "ok")
        /\ UNCHANGED <<shader, sceneObjects, frameCameras>>
        /\ UNCHANGED <<cmVars, unitVars>>

\* Renderer::AddRenderObject: stores the pointer
AddRenderObject(object) ==
    /\ Len(sceneObjects) < MaxObjects
    /\ sceneObjects' = Append(sceneObjects, object)
    /\ glCalls' = <<>>
    /\ lastCall' = Call("AddRenderObject", "", FALSE, DefaultData, "ok")
    /\ UNCHANGED <<shader, boundFBO, frameCameras>>
    /\ UNCHANGED <<cmVars, unitVars>>

\* Renderer::ResetSceneObjects
ResetSceneObjects ==
    /\ sceneObjects' = <<>>
    /\ glCalls' = <<>>
    /\ lastCall' = Call("ResetSceneObjects", "", FALSE, DefaultData, "ok")
    /\ UNCHANGED <<shader, boundFBO, frameCameras>>
    /\ UNCHANGED <<cmVars, unitVars>>

\* Renderer::Initialize: the Shader constructor either links the program or
\* throws (missing file, compile or link error), leaving `shader` as it was
Initialize(loaded) ==
    /\ shader' = IF loaded THEN ShaderProgram ELSE shader
    /\ glCalls' = << Ev("glEnable GL_DEPTH_TEST", 0, 0, 0, boundFBO),
                     Ev("glGetString GL_VERSION", 0, 0, 0, boundFBO),
                     Ev("glGetString GL_SHADING_LANGUAGE_VERSION", 0, 0, 0, boundFBO),
                     Ev("Shader::Shader", 0, 0, 0, boundFBO) >>
                  \o (IF loaded THEN << Ev("glGetError", 0, 0, 0, boundFBO) >> ELSE <<>>)
    /\ lastCall' = Call("Initialize", "", loaded, DefaultData,
                        IF loaded THEN "ok" ELSE "ShaderError")
    /\ UNCHANGED <<sceneObjects, boundFBO, frameCameras>>
    /\ UNCHANGED <<cmVars, unitVars>>

----------------------------------------------------------------------------
(* Mesh: src/src/Renderer/Mesh.cpp                                          *)

\* number of Mesh objects a behaviour brings to life
MaxMeshes == 3

\* a Mesh object occupies one slot from its construction on
MeshSlots == 1..MaxMeshes

\* (vertices.size(), indices.size()) of the vectors handed to Mesh(verts, inds)
MeshData == {<<3, 3>>, <<3, 0>>}

\* the variables the Mesh actions leave alone
meshFrame == <<cmVars, rVars, sphere, transform, cameraState, input, app, nodes>>

\* a Mesh object: life is "unborn", "live" or "dead"; movedFrom holds while
\* the object was last used as the source of a move
MeshObject(life, VAO, VBO, EBO, vertexCount, indexCount, movedFrom) ==
    [life |-> life, VAO |-> VAO, VBO |-> VBO, EBO |-> EBO,
     vertexCount |-> vertexCount, indexCount |-> indexCount,
     movedFrom |-> movedFrom]

\* storage no constructor has run on
Unborn == MeshObject("unborn", 0, 0, 0, 0, 0, FALSE)

NoMeshes == [m \in MeshSlots |-> Unborn]

\* the GL context's names: vaoGen and bufGen count the names generated so
\* far (the k-th generated name is k), vaoDeleted[k] and bufDeleted[k] count
\* the delete calls that named k
NoNames == [vaoGen |-> 0, bufGen |-> 0, vaoDeleted |-> <<>>, bufDeleted |-> <<>>]

\* glGenVertexArrays(1, &name)
GenVertexArray(g) == [g EXCEPT !.vaoGen = @ + 1, !.vaoDeleted = Append(@, 0)]

\* glGenBuffers(1, &name)
GenBuffer(g) == [g EXCEPT !.bufGen = @ + 1, !.bufDeleted = Append(@, 0)]

\* glDeleteVertexArrays(1, &name); the context ignores the name 0
DeleteVertexArray(g, name) ==
    IF name = 0 THEN g ELSE [g EXCEPT !.vaoDeleted[name] = @ + 1]

\* glDeleteBuffers(1, &name); the context ignores the name 0
DeleteBuffer(g, name) ==
    IF name = 0 THEN g ELSE [g EXCEPT !.bufDeleted[name] = @ + 1]

\* the three delete calls of ~Mesh and of the move assignment, on the GL state
DeleteHandles(g, mesh) ==
    DeleteBuffer(DeleteBuffer(DeleteVertexArray(g, mesh.VAO), mesh.VBO), mesh.EBO)

\* the same three calls, as log entries for Mesh object m
DeleteCalls(m, mesh) ==
    << Ev("glDeleteVertexArrays", 0, m, mesh.VAO, boundFBO),
       Ev("glDeleteBuffers", 0, m, mesh.VBO, boundFBO),
       Ev("glDeleteBuffers", 0, m, mesh.EBO, boundFBO) >>

\* a Mesh operation on object self with argument object other (0 = none);
\* movedFrom is self's movedFrom mark when the operation began
MeshCall(op, self, other, movedFrom) ==
    [op |-> op, self |-> self, other |-> other, movedFrom |-> movedFrom]

\* Mesh::Mesh(verts, inds), Initialize() included
MeshConstruct(m, vertexCount, indexCount) ==
    /\ meshes[m].life = "unborn"
    /\ meshes' = [meshes EXCEPT ![m] =
                     MeshObject("live", gpu.vaoGen + 1, gpu.bufGen + 1, gpu.bufGen + 2,
                                vertexCount, indexCount, FALSE)]
    /\ gpu' = GenBuffer(GenBuffer(GenVertexArray(gpu)))
    /\ glCalls' = << Ev("glGenVertexArrays", 0, m, gpu.vaoGen + 1, boundFBO),
                     Ev("glGenBuffers", 0, m, gpu.bufGen + 1, boundFBO),
                     Ev("glGenBuffers", 0, m, gpu.bufGen + 2, boundFBO) >>
    /\ lastCall' = MeshCall("Mesh", m, 0, FALSE)
    /\ UNCHANGED meshFrame

\* Mesh() = default
MeshDefault(m) ==
    /\ meshes[m].life = "unborn"
    /\ meshes' = [meshes EXCEPT ![m] = MeshObject("live", 0, 0, 0, 0, 0, FALSE)]
    /\ glCalls' = <<>>
    /\ lastCall' = MeshCall("Mesh()", m, 0, FALSE)
    /\ UNCHANGED <<gpu, meshFrame>>

\* variant of MeshMove: the source keeps its handles
MeshMoveKeepsHandles(m, other) ==
    /\ meshes[m].life = "unborn"
    /\ meshes[other].life = "live"
    /\ meshes' = [meshes EXCEPT
                     ![m] = [meshes[other] EXCEPT !.movedFrom = FALSE],
                     ![other] = [meshes[other] EXCEPT !.vertexCount = 0,
                                                      !.indexCount = 0,
                                                      !.movedFrom = TRUE]]
    /\ glCalls' = <<>>
    /\ lastCall' = MeshCall("Mesh(Mesh&&)", m, other, FALSE)
    /\ UNCHANGED <<gpu, meshFrame>>

\* Mesh::Mesh(Mesh&& other)
MeshMove(m, other) ==
    /\ meshes[m].life = "unborn"
    /\ meshes[other].life = "live"
    /\ meshes' = [meshes EXCEPT
                     ![m] = [meshes[other] EXCEPT !.movedFrom = FALSE],
                     ![other] = MeshObject("live", 0, 0, 0, 0, 0, TRUE)]
    /\ glCalls' = <<>>
    /\ lastCall' = MeshCall("Mesh(Mesh&&)", m, other, FALSE)
    /\ UNCHANGED <<gpu, meshFrame>>

\* variant of MeshMoveAssign: the target's own handles are not deleted
MeshMoveAssignNoCleanup(m, other) ==
    /\ meshes[m].life = "live"
    /\ meshes[other].life = "live"
    /\ meshes' = IF m = other THEN meshes
                 ELSE [meshes EXCEPT
                          ![m] = [meshes[other] EXCEPT !.movedFrom = FALSE],
                          ![other] = MeshObject("live", 0, 0, 0, 0, 0, TRUE)]
    /\ glCalls' = <<>>
    /\ lastCall' = MeshCall("operator=", m, other, meshes[m].movedFrom)
    /\ UNCHANGED <<gpu, meshFrame>>

\* Mesh& Mesh::operator=(Mesh&& other)
MeshMoveAssign(m, other) ==
    /\ meshes[m].life = "live"
    /\ meshes[other].life = "live"
    /\ IF m = other
       THEN /\ glCalls' = <<>>
            /\ UNCHANGED <<meshes, gpu>>
       ELSE /\ gpu' = DeleteHandles(gpu, meshes[m])
            /\ glCalls' = DeleteCalls(m, meshes[m])
            /\ meshes' = [meshes EXCEPT
                             ![m] = [meshes[other] EXCEPT !.movedFrom = FALSE],
                             ![other] = MeshObject("live", 0, 0, 0, 0, 0, TRUE)]
    /\ lastCall' = MeshCall("operator=", m, other, meshes[m].movedFrom)
    /\ UNCHANGED meshFrame

\* Mesh::~Mesh
MeshDestroy(m) ==
    /\ meshes[m].life = "live"
    /\ gpu' = DeleteHandles(gpu, meshes[m])
    /\ glCalls' = DeleteCalls(m, meshes[m])
    /\ meshes' = [meshes EXCEPT ![m].life = "dead"]
    /\ lastCall' = MeshCall("~Mesh", m, 0, meshes[m].movedFrom)
    /\ UNCHANGED meshFrame

\* Mesh::Draw on a Mesh object
MeshDrawCall(m) ==
    /\ meshes[m].life = "live"
    /\ glCalls' = MeshDraw(meshes[m], 0, m, boundFBO)
    /\ lastCall' = MeshCall("Draw", m, 0, meshes[m].movedFrom)
    /\ UNCHANGED <<meshes, gpu, meshFrame>>

----------------------------------------------------------------------------
(* Mesh::CreateSphere: src/src/Renderer/Mesh.cpp                            *)

\* largest `sectors` and `stacks` arguments handed to CreateSphere
MaxSectors == 8

MaxStacks == 6

\* the variables CreateSphere leaves alone
sphereFrame == <<cmVars, rVars, transform, cameraState, input, app, nodes>>

\* the arguments of a call and the vectors it built; a vertex is the pair
\* <<i, j>> of the stack and sector steps its position, normal and texture
\* coordinate are computed from
SphereCall(sectors, stacks, built, verts, inds) ==
    [sectors |-> sectors, stacks |-> stacks, built |-> built,
     verts |-> verts, inds |-> inds]

\* no call of CreateSphere yet
NoSphere == SphereCall(0, 0, FALSE, <<>>, <<>>)

\* variant of SphereVertexRow: the row is not closed by the vertex that
\* repeats the first one
RECURSIVE SphereVertexRowOpen(_, _, _)
SphereVertexRowOpen(i, j, sectors) ==
    IF j >= sectors THEN <<>>
    ELSE << <<i, j>> >> \o SphereVertexRowOpen(i, j + 1, sectors)

\* the inner vertex loop `for (j = 0; j <= sectors; ++j)` from j on
RECURSIVE SphereVertexRow(_, _, _)
SphereVertexRow(i, j, sectors) ==
    IF j > sectors THEN <<>>
    ELSE << <<i, j>> >> \o SphereVertexRow(i, j + 1, sectors)

\* the outer vertex loop `for (i = 0; i <= stacks; ++i)` from i on
RECURSIVE SphereVertices(_, _, _)
SphereVertices(i, sectors, stacks) ==
    IF i > stacks THEN <<>>
    ELSE SphereVertexRow(i, 0, sectors) \o SphereVertices(i + 1, sectors, stacks)

\* variant of SphereQuad: both triangles are emitted for every quad
SphereQuadNoPoles(i, k1, k2, stacks) ==
    <<k1, k2, k1 + 1>> \o <<k1 + 1, k2, k2 + 1>>

\* the body of the inner index loop: the triangles of one quad, none at the
\* pole it touches; `stacks - 1` is computed in unsigned int
SphereQuad(i, k1, k2, stacks) ==
    (IF i # 0 THEN <<k1, k2, k1 + 1>> ELSE <<>>)
        \o (IF ToUInt(i) # ToUInt(stacks - 1) THEN <<k1 + 1, k2, k2 + 1>> ELSE <<>>)

\* the inner index loop `for (j = 0; j < sectors; ++j, ++k1, ++k2)` from j on
RECURSIVE SphereIndexRow(_, _, _, _, _, _)
SphereIndexRow(i, j, k1, k2, sectors, stacks) ==
    IF j >= sectors THEN <<>>
    ELSE SphereQuad(i, k1, k2, stacks)
            \o SphereIndexRow(i, j + 1, k1 + 1, k2 + 1, sectors, stacks)

\* the outer index loop `for (i = 0; i < stacks; ++i)` from i on
RECURSIVE SphereIndices(_, _, _)
SphereIndices(i, sectors, stacks) ==
    IF i >= stacks THEN <<>>
    ELSE LET k1 == i * (sectors + 1)
             k2 == k1 + sectors + 1
         IN  SphereIndexRow(i, 0, k1, k2, sectors, stacks)
                \o SphereIndices(i + 1, sectors, stacks)

\* Mesh::CreateSphere(radius, sectors, stacks), returning Mesh object m
CreateSphere(m) ==
    /\ ~sphere.built
    /\ meshes[m].life = "unborn"
    /\ LET verts == SphereVertices(0, sphere.sectors, sphere.stacks)
           inds == SphereIndices(0, sphere.sectors, sphere.stacks)
       IN  /\ sphere' = SphereCall(sphere.sectors, sphere.stacks, TRUE, verts, inds)
           /\ meshes' = [meshes EXCEPT ![m] =
                            MeshObject("live", gpu.vaoGen + 1, gpu.bufGen + 1,
                                       gpu.bufGen + 2, Len(verts), Len(inds), FALSE)]
           /\ lastCall' = MeshCall("CreateSphere", m, 0, FALSE)
    /\ gpu' = GenBuffer(GenBuffer(GenVertexArray(gpu)))
    /\ glCalls' = << Ev("cout [Mesh] Created sphere", 0, m, 0, boundFBO),
                     Ev("glGenVertexArrays", 0, m, gpu.vaoGen + 1, boundFBO),
                     Ev("glGenBuffers", 0, m, gpu.bufGen + 1, boundFBO),
                     Ev("glGenBuffers", 0, m, gpu.bufGen + 2, boundFBO) >>
    /\ UNCHANGED sphereFrame

----------------------------------------------------------------------------
(* Transform: src/src/Scene/Transform.cpp                                   *)
(*                                                                         *)
(* A float is an integer or NaN.  Positions are counted in steps of which  *)
(* Micro make up the tolerance 1e-6 of LookAt; matrix and vector entries   *)
(* outside the translation column are plain numbers.  A quaternion is a    *)
(* rotation about the Y axis by k quarter turns, k counted modulo 8 (q and  *)
(* -q are different values), times a length.  A matrix is the tuple of its  *)
(* rows.                                                                    *)

\* the float NaN
NaN == -1000000000

\* position steps per 1e-6
Micro == 2

\* 1e-6f as the fraction 1 / EpsilonDenominator
EpsilonDenominator == 1000000

\* Translate is not taken when a coordinate would leave -MaxCoord..MaxCoord
MaxCoord == 4

\* ScaleBy is not taken when a factor would leave -MaxScale..MaxScale
MaxScale == 2

\* the variables the Transform actions leave alone
transformFrame == <<cmVars, rVars, meshes, gpu, sphere, cameraState, input, app, nodes>>

FAdd(a, b) == IF a = NaN \/ b = NaN THEN NaN ELSE a + b

FSub(a, b) == IF a = NaN \/ b = NaN THEN NaN ELSE a - b

FMul(a, b) == IF a = NaN \/ b = NaN THEN NaN ELSE a * b

Abs(x) == IF x < 0 THEN -x ELSE x

Sign(x) == IF x > 0 THEN 1 ELSE IF x < 0 THEN -1 ELSE 0

HasNaN(v) == \E i \in DOMAIN v : v[i] = NaN

NaNVec == <<NaN, NaN, NaN>>

VSub(a, b) == [i \in 1..3 |-> FSub(a[i], b[i])]

\* glm::cross
Cross(a, b) ==
    << FSub(FMul(a[2], b[3]), FMul(b[2], a[3])),
       FSub(FMul(a[3], b[1]), FMul(b[3], a[1])),
       FSub(FMul(a[1], b[2]), FMul(b[1], a[2])) >>

\* glm::normalize(vec3) = v * inversesqrt(dot(v, v)): the zero vector gives
\* 0 * inf = NaN in every component; exact for vectors along one axis, the
\* only ones the model hands to it
Normalize(v) ==
    IF HasNaN(v) \/ v = <<0, 0, 0>> THEN NaNVec
    ELSE [i \in 1..3 |-> Sign(v[i])]

\* glm::length(vec3), exact for vectors along one axis
Length(v) == IF HasNaN(v) THEN NaN ELSE Abs(v[1]) + Abs(v[2]) + Abs(v[3])

\* x < 1e-6f; a comparison with NaN is false
BelowEpsilon(x) == x # NaN /\ x * EpsilonDenominator < 1

\* the quaternion len * (cos(k * 45 deg), 0, sin(k * 45 deg), 0)
Quat(len, k) == [len |-> len, k |-> k]

NaNQuat == Quat(NaN, 0)

\* glm::quat(1, 0, 0, 0)
IdentityQuat == Quat(1, 0)

\* glm::normalize(quat): identity when the length is <= 0
QuatNormalize(q) ==
    IF q.len = NaN THEN NaNQuat
    ELSE IF q.len <= 0 THEN IdentityQuat
    ELSE Quat(1, q.k)

\* operator*(quat, quat)
QuatMul(a, b) ==
    IF a.len = NaN \/ b.len = NaN THEN NaNQuat
    ELSE IF a.len * b.len = 0 THEN Quat(0, 0)
    ELSE Quat(a.len * b.len, (a.k + b.k) % 8)

\* glm::angleAxis(radians(degrees), axis) for a unit axis along Y and a
\* multiple of 90 degrees
AngleAxis(degrees, axis) ==
    IF HasNaN(axis) THEN NaNQuat
    ELSE Quat(1, ((axis[2] * degrees) \div 90) % 8)

Identity4 == <<<<1, 0, 0, 0>>, <<0, 1, 0, 0>>, <<0, 0, 1, 0>>, <<0, 0, 0, 1>>>>

\* glm::mat4 * glm::mat4
MatMul(A, B) ==
    [r \in 1..4 |-> [c \in 1..4 |->
        FAdd(FAdd(FMul(A[r][1], B[1][c]), FMul(A[r][2], B[2][c])),
             FAdd(FMul(A[r][3], B[3][c]), FMul(A[r][4], B[4][c])))]]

\* glm::scale(glm::mat4(1.0f), scale)
ScaleMatrix(s) ==
    <<<<s[1], 0, 0, 0>>, <<0, s[2], 0, 0>>, <<0, 0, s[3], 0>>, <<0, 0, 0, 1>>>>

\* glm::translate(glm::mat4(1.0f), position)
TranslateMatrix(p) ==
    <<<<1, 0, 0, p[1]>>, <<0, 1, 0, p[2]>>, <<0, 0, 1, p[3]>>, <<0, 0, 0, 1>>>>

\* glm::toMat4(quat) of a unit quaternion
ToMat4(q) ==
    IF q.len = NaN
    THEN <<<<NaN, NaN, NaN, 0>>, <<NaN, NaN, NaN, 0>>, <<NaN, NaN, NaN, 0>>, <<0, 0, 0, 1>>>>
    ELSE LET t == q.k % 4
             cos == IF t = 0 THEN 1 ELSE IF t = 2 THEN -1 ELSE 0
             sin == IF t = 1 THEN 1 ELSE IF t = 3 THEN -1 ELSE 0
         IN  <<<<cos, 0, sin, 0>>, <<0, 1, 0, 0>>, <<-sin, 0, cos, 0>>, <<0, 0, 0, 1>>>>

\* glm::mat3(mat4)
Mat3(M) == [r \in 1..3 |-> [c \in 1..3 |-> M[r][c]]]

\* glm::transpose
Transpose(M) == [r \in DOMAIN M |-> [c \in DOMAIN M |-> M[c][r]]]

\* glm::inverse(mat3) = cofactors * (1 / determinant), kept as the exact
\* fraction: the matrix of numerators and the common denominator
Inverse3(M) ==
    LET Minor(r, c) ==
            LET r1 == (r % 3) + 1
                r2 == (r1 % 3) + 1
                c1 == (c % 3) + 1
                c2 == (c1 % 3) + 1
            IN  FSub(FMul(M[r1][c1], M[r2][c2]), FMul(M[r1][c2], M[r2][c1]))
        det == FAdd(FAdd(FMul(M[1][1], Minor(1, 1)), FMul(M[1][2], Minor(1, 2))),
                    FMul(M[1][3], Minor(1, 3)))
    IN  [numerators |-> [r \in 1..3 |-> [c \in 1..3 |-> Minor(c, r)]],
         determinant |-> det]

\* M = T * R * S
ModelMatrix(position, rotation, scale) ==
    MatMul(MatMul(TranslateMatrix(position), ToMat4(rotation)), ScaleMatrix(scale))

\* inverse(transpose(mat3(M)))
NormalMatrix(M) == Inverse3(Transpose(Mat3(M)))

\* glm::quat_cast(mat3) of a rotation about Y: the quaternion with w >= 0
\* (y = 1 for the half turn) whose matrix is M
QuatCast(M) ==
    IF \E r \in 1..3 : HasNaN(M[r]) THEN NaNQuat
    ELSE CHOOSE q \in {Quat(1, 0), Quat(1, 1), Quat(1, 2), Quat(1, 7)} :
            Mat3(ToMat4(q)) = M

\* glm::lookAt(eye, center, up), linear part: rows s, u, -f
LookAtView(eye, center, up) ==
    LET f == Normalize(VSub(center, eye))
        s == Normalize(Cross(f, up))
        u == Cross(s, f)
    IN  << s, u, [i \in 1..3 |-> FSub(0, f[i])] >>

\* a Transform object
TransformObject(position, rotation, scale, dirty, modelMatrixCache, normalMatricCahe) ==
    [position |-> position, rotation |-> rotation, scale |-> scale, dirty |-> dirty,
     modelMatrixCache |-> modelMatrixCache, normalMatricCahe |-> normalMatricCahe]

\* Transform::Transform(); the caches are written by the first recalculation
NewTransform ==
    TransformObject(<<0, 0, 0>>, IdentityQuat, <<1, 1, 1>>, TRUE,
                    Identity4, NormalMatrix(Identity4))

\* Transform::RecalculateIfNeeded
RecalculateIfNeeded(t) ==
    IF ~t.dirty THEN t
    ELSE LET M == ModelMatrix(t.position, t.rotation, t.scale)
         IN  [t EXCEPT !.modelMatrixCache = M,
                       !.normalMatricCahe = NormalMatrix(M),
                       !.dirty = FALSE]

\* a Transform operation, its argument, and for the getters the value returned
TransformCall(op, arg, result) == [op |-> op, arg |-> arg, result |-> result]

\* Transform::GetModelMatrix
GetModelMatrix ==
    LET t == RecalculateIfNeeded(transform)
    IN  /\ transform' = t
        /\ lastCall' = TransformCall("GetModelMatrix", transform.dirty, t.modelMatrixCache)
        /\ glCalls' = <<>>
        /\ UNCHANGED transformFrame

\* Transform::GetNormalMatrix
GetNormalMatrix ==
    LET t == RecalculateIfNeeded(transform)
    IN  /\ transform' = t
        /\ lastCall' = TransformCall("GetNormalMatrix", transform.dirty, t.normalMatricCahe)
        /\ glCalls' = <<>>
        /\ UNCHANGED transformFrame

\* Transform::SetPosition
SetPosition(pos) ==
    /\ transform' = [transform EXCEPT !.position = pos, !.dirty = TRUE]
    /\ lastCall' = TransformCall("SetPosition", pos, 0)
    /\ glCalls' = <<>>
    /\ UNCHANGED transformFrame

\* variant of Translate: the dirty flag is left as it is
TranslateKeepsFlag(delta) ==
    LET pos == [i \in 1..3 |-> FAdd(transform.position[i], delta[i])]
    IN  /\ \A i \in 1..3 : Abs(pos[i]) <= MaxCoord
        /\ transform' = [transform EXCEPT !.position = pos]
        /\ lastCall' = TransformCall("Translate", delta, 0)
        /\ glCalls' = <<>>
        /\ UNCHANGED transformFrame

\* Transform::Translate
Translate(delta) ==
    LET pos == [i \in 1..3 |-> FAdd(transform.position[i], delta[i])]
    IN  /\ \A i \in 1..3 : Abs(pos[i]) <= MaxCoord
        /\ transform' = [transform EXCEPT !.position = pos, !.dirty = TRUE]
        /\ lastCall' = TransformCall("Translate", delta, 0)
        /\ glCalls' = <<>>
        /\ UNCHANGED transformFrame

\* Transform::SetRotation
SetRotation(quat) ==
    /\ transform' = [transform EXCEPT !.rotation = QuatNormalize(quat), !.dirty = TRUE]
    /\ lastCall' = TransformCall("SetRotation", quat, 0)
    /\ glCalls' = <<>>
    /\ UNCHANGED transformFrame

\* Transform::SetRotationEuler, for Euler angles with pitch = roll = 0
SetRotationEuler(eularDegrees) ==
    LET qpitch == IdentityQuat
        qYaw == AngleAxis(eularDegrees[2], <<0, 1, 0>>)
        qRoll == IdentityQuat
    IN  /\ transform' = [transform EXCEPT
                            !.rotation = QuatNormalize(QuatMul(QuatMul(qYaw, qpitch), qRoll)),
                            !.dirty = TRUE]
        /\ lastCall' = TransformCall("SetRotationEuler", eularDegrees, 0)
        /\ glCalls' = <<>>
        /\ UNCHANGED transformFrame

\* Transform::RotateEuler, for Euler angles with pitch = roll = 0
RotateEuler(eularDeltaDegrees) ==
    LET dq == AngleAxis(eularDeltaDegrees[2], <<0, 1, 0>>)
    IN  /\ transform' = [transform EXCEPT
                            !.rotation = QuatNormalize(QuatMul(dq, transform.rotation)),
                            !.dirty = TRUE]
        /\ lastCall' = TransformCall("RotateEuler", eularDeltaDegrees, 0)
        /\ glCalls' = <<>>
        /\ UNCHANGED transformFrame

\* Transform::RotateAxisAngle
RotateAxisAngle(axis, angleDegrees) ==
    LET dq == AngleAxis(angleDegrees, Normalize(axis))
    IN  /\ transform' = [transform EXCEPT
                            !.rotation = QuatNormalize(QuatMul(dq, transform.rotation)),
                            !.dirty = TRUE]
        /\ lastCall' = TransformCall("RotateAxisAngle", <<axis, angleDegrees>>, 0)
        /\ glCalls' = <<>>
        /\ UNCHANGED transformFrame

\* Transform::RotateByQuat
RotateByQuat(delta) ==
    /\ transform' = [transform EXCEPT
                        !.rotation = QuatNormalize(QuatMul(delta, transform.rotation)),
                        !.dirty = TRUE]
    /\ lastCall' = TransformCall("RotateByQuat", delta, 0)
    /\ glCalls' = <<>>
    /\ UNCHANGED transformFrame

\* Transform::SetScale
SetScale(scl) ==
    /\ transform' = [transform EXCEPT !.scale = scl, !.dirty = TRUE]
    /\ lastCall' = TransformCall("SetScale", scl, 0)
    /\ glCalls' = <<>>
    /\ UNCHANGED transformFrame

\* Transform::ScaleBy
ScaleBy(factor) ==
    LET scl == [i \in 1..3 |-> FMul(transform.scale[i], factor[i])]
    IN  /\ \A i \in 1..3 : Abs(scl[i]) <= MaxScale
        /\ transform' = [transform EXCEPT !.scale = scl, !.dirty = TRUE]
        /\ lastCall' = TransformCall("ScaleBy", factor, 0)
        /\ glCalls' = <<>>
        /\ UNCHANGED transformFrame

\* Transform::LookAt
LookAt(target, up) ==
    LET forwardDir == Normalize(VSub(target, transform.position))
        view == LookAtView(transform.position, target, up)
        rotationMatrix == Transpose(view)
    IN  /\ IF BelowEpsilon(Length(forwardDir))
           THEN UNCHANGED transform
           ELSE transform' = [transform EXCEPT
                                 !.rotation = QuatNormalize(QuatNormalize(QuatCast(rotationMatrix))),
                                 !.dirty = TRUE]
        /\ lastCall' = TransformCall("LookAt", target, 0)
        /\ glCalls' = <<>>
        /\ UNCHANGED transformFrame

----------------------------------------------------------------------------
(* Camera: src/src/Scene/Camera.cpp                                         *)
(*                                                                         *)
(* Angles are whole degrees.  The front vector is a function of yaw and     *)
(* pitch through sin and cos; it is kept as the pair of the two angles      *)
(* modulo a full turn.                                                      *)

\* Rotate is not taken when yaw or pitch would leave -MaxAngle..MaxAngle
MaxAngle == 200

\* the variables the Camera actions leave alone
cameraFrame == <<cmVars, rVars, meshes, gpu, sphere, transform, input, app, nodes>>

\* Camera::UpdateCameraVectors: front from yaw and pitch
UpdateCameraVectors(c) ==
    [c EXCEPT !.front = [yaw |-> c.yaw % 360, pitch |-> c.pitch % 360]]

\* Camera::Camera(pos, aspect)
NewCamera3D(pos) ==
    UpdateCameraVectors([position |-> pos, yaw |-> -90, pitch |-> 0,
                         front |-> [yaw |-> 270, pitch |-> 0]])

\* a Camera operation and its arguments
CameraCall(op, arg) == [op |-> op, arg |-> arg]

\* Camera::Move
Move(delta) ==
    LET pos == [i \in 1..3 |-> cameraState.position[i] + delta[i]]
    IN  /\ \A i \in 1..3 : Abs(pos[i]) <= MaxCoord
        /\ cameraState' = [cameraState EXCEPT !.position = pos]
        /\ lastCall' = CameraCall("Move", delta)
        /\ glCalls' = <<>>
        /\ UNCHANGED cameraFrame

\* the body of Camera::Rotate on Camera object c
Rotated(c, yawDelta, pitchDelta) ==
    LET yaw == c.yaw + yawDelta
        pitch == c.pitch + pitchDelta
    IN  UpdateCameraVectors([c EXCEPT !.pitch = IF pitch > 89 THEN 89 ELSE pitch,
                                      !.yaw = IF yaw < -89 THEN -89 ELSE yaw])

\* Camera::Rotate
Rotate(yawDelta, pitchDelta) ==
    LET yaw == cameraState.yaw + yawDelta
        pitch == cameraState.pitch + pitchDelta
    IN  /\ Abs(yaw) <= MaxAngle
        /\ Abs(pitch) <= MaxAngle
        /\ cameraState' = Rotated(cameraState, yawDelta, pitchDelta)
        /\ lastCall' = CameraCall("Rotate", <<yawDelta, pitchDelta>>)
        /\ glCalls' = <<>>
        /\ UNCHANGED cameraFrame

----------------------------------------------------------------------------
(* Input: src/src/Core/Input.cpp                                            *)

\* cursor events carry coordinates in 0..MaxCursor
MaxCursor == 2

\* the variables the Input functions leave alone
inputFrame == <<cmVars, rVars, meshes, gpu, sphere, transform, cameraState, app, nodes>>

\* the statics at program start: keyStates empty, mousePos(0.0),
\* mouseDelta(0.0), and CursorPosCallback's static firstMouse = true.
\* `moved` is not a variable of the program: it is the history of the cursor,
\* the sum of the displacements CursorPosCallback was given since the last
\* GetMouseDelta.
NoInput ==
    [keyStates |-> [k \in {} |-> FALSE], mousePos |-> <<0, 0>>,
     mouseDelta |-> <<0, 0>>, firstMouse |-> TRUE, moved |-> <<0, 0>>]

\* an Input function, its argument, the value it returned, and the function
\* called before it with the value that one returned
InputCall(op, arg, result) ==
    [op |-> op, arg |-> arg, result |-> result,
     priorOp |-> lastCall.op,
     priorResult |-> IF lastCall.op = "GetMouseDelta" THEN lastCall.result ELSE <<0, 0>>]

\* Input::IsKeyPressed
IsKeyPressed(key) ==
    /\ lastCall' = InputCall("IsKeyPressed", key,
                             IF key \in DOMAIN input.keyStates
                             THEN input.keyStates[key] ELSE FALSE)
    /\ glCalls' = <<>>
    /\ UNCHANGED <<input, inputFrame>>

\* Input::GetMousePosition
GetMousePosition ==
    /\ lastCall' = InputCall("GetMousePosition", 0, input.mousePos)
    /\ glCalls' = <<>>
    /\ UNCHANGED <<input, inputFrame>>

\* variant of GetMouseDelta: the delta is not reset
GetMouseDeltaKeepsDelta ==
    /\ input' = [input EXCEPT !.moved = <<0, 0>>]
    /\ lastCall' = InputCall("GetMouseDelta", 0, input.mouseDelta)
    /\ glCalls' = <<>>
    /\ UNCHANGED inputFrame

\* Input::GetMouseDelta
GetMouseDelta ==
    /\ input' = [input EXCEPT !.mouseDelta = <<0, 0>>, !.moved = <<0, 0>>]
    /\ lastCall' = InputCall("GetMouseDelta", 0, input.mouseDelta)
    /\ glCalls' = <<>>
    /\ UNCHANGED inputFrame

\* Input::KeyCallback
KeyCallback(key, action) ==
    /\ input' = IF action = "GLFW_PRESS"
                THEN [input EXCEPT !.keyStates = MapAssign(@, key, TRUE)]
                ELSE IF action = "GLFW_RELEASE"
                THEN [input EXCEPT !.keyStates = MapAssign(@, key, FALSE)]
                ELSE input
    /\ lastCall' = InputCall("KeyCallback", <<key, action>>, 0)
    /\ glCalls' = <<>>
    /\ UNCHANGED inputFrame

\* Input::CursorPosCallback
CursorPosCallback(xpos, ypos) ==
    /\ input' = IF input.firstMouse
                THEN [input EXCEPT !.mousePos = <<xpos, ypos>>, !.firstMouse = FALSE]
                ELSE [input EXCEPT
                         !.mouseDelta = <<xpos - input.mousePos[1], ypos - input.mousePos[2]>>,
                         !.mousePos = <<xpos, ypos>>,
                         !.moved = <<@[1] + xpos - input.mousePos[1],
                                     @[2] + ypos - input.mousePos[2]>>]
    /\ lastCall' = InputCall("CursorPosCallback", <<xpos, ypos>>, 0)
    /\ glCalls' = <<>>
    /\ UNCHANGED inputFrame

----------------------------------------------------------------------------
(* Application: src/Application.cpp                                         *)
(*                                                                         *)
(* The constructor and Run are followed call by call; app.pc names the      *)
(* call that comes next.  The meshes, materials and transforms of the three *)
(* scene objects are not followed: the objects are entries 5, 6, 7 of       *)
(* ObjectPool.                                                              *)

\* the loop of Run is not entered again after this many frames
MaxFrames == 3

\* mouseSensitivity = 0.05 degrees per pixel: pixels per whole degree
PixelsPerDegree == 20

\* the variables no step of the Application touches
appFrame == <<deleted, destroyed, toggle, meshes, gpu, sphere, transform, nodes>>

\* the Application object: `running`, the window's close flag, and counts of
\* the frames finished and of the calls made in the current frame
ApplicationObject(pc, running, shouldClose, frames, submitted, rendered, resets) ==
    [pc |-> pc, running |-> running, shouldClose |-> shouldClose, frames |-> frames,
     submitted |-> submitted, rendered |-> rendered, resets |-> resets]

\* before the constructor runs; bool running = true
NoApplication == ApplicationObject("Application", TRUE, FALSE, 0, 0, 0, 0)

\* a step of the Application and its argument
AppCall(op, arg) == [op |-> op, arg |-> arg]

\* Application::Application: CreateMainCamera(width, height) registers the
\* camera the controller drives
AppConstruct(width, height) ==
    /\ app.pc = "Application"
    /\ allocated' = allocated + 1
    /\ mainCamera' = NewCamera(allocated + 1)
    /\ AddCameraEffect("MainCamera", mainCamera', <<0, 0, width, height>>, ToUInt(0), 0)
    /\ cameraState' = NewCamera3D(<<0, 3, 20>>)
    /\ app' = [app EXCEPT !.pc = "Initialize"]
    /\ glCalls' = <<>>
    /\ lastCall' = AppCall("Application", <<width, height>>)
    /\ UNCHANGED <<rVars, input, appFrame>>

\* Run: renderer->Initialize(); an exception of the Shader constructor
\* leaves Run
RunInitialize(loaded) ==
    /\ app.pc = "Initialize"
    /\ shader' = IF loaded THEN ShaderProgram ELSE shader
    /\ glCalls' = << Ev("glEnable GL_DEPTH_TEST", 0, 0, 0, boundFBO),
                     Ev("glGetString GL_VERSION", 0, 0, 0, boundFBO),
                     Ev("glGetString GL_SHADING_LANGUAGE_VERSION", 0, 0, 0, boundFBO),
                     Ev("Shader::Shader", 0, 0, 0, boundFBO) >>
                  \o (IF loaded THEN << Ev("glGetError", 0, 0, 0, boundFBO) >> ELSE <<>>)
    /\ app' = [app EXCEPT !.pc = IF loaded THEN "while" ELSE "exception"]
    /\ lastCall' = AppCall("Initialize", loaded)
    /\ UNCHANGED <<sceneObjects, boundFBO, frameCameras, cameras, activeCameras,
                   mainCamera, allocated, cameraState, input, appFrame>>

\* Run: while (running && !window->ShouldClose())
LoopTest ==
    /\ app.pc = "while"
    /\ (app.running /\ ~app.shouldClose) => app.frames < MaxFrames
    /\ app' = IF app.running /\ ~app.shouldClose
              THEN [app EXCEPT !.pc = "glfwPollEvents", !.submitted = 0,
                               !.rendered = 0, !.resets = 0]
              ELSE [app EXCEPT !.pc = "return"]
    /\ glCalls' = <<>>
    /\ lastCall' = AppCall("while", app.running /\ ~app.shouldClose)
    /\ UNCHANGED <<rVars, cameras, activeCameras, mainCamera, allocated,
                   cameraState, input, appFrame>>

\* Run: glfwPollEvents() delivers the pending events to the callbacks
PollEvents(event) ==
    /\ app.pc = "glfwPollEvents"
    /\ input' = IF event = "press ESCAPE"
                THEN [input EXCEPT !.keyStates = MapAssign(@, "GLFW_KEY_ESCAPE", TRUE)]
                ELSE IF event = "release ESCAPE"
                THEN [input EXCEPT !.keyStates = MapAssign(@, "GLFW_KEY_ESCAPE", FALSE)]
                ELSE input
    /\ app' = [app EXCEPT !.pc = "ProcessInput",
                          !.shouldClose = @ \/ event = "close window"]
    /\ glCalls' = <<>>
    /\ lastCall' = AppCall("glfwPollEvents", event)
    /\ UNCHANGED <<rVars, cameras, activeCameras, mainCamera, allocated,
                   cameraState, appFrame>>

\* variant of ProcessInput: the escape key is not tested
ProcessInputIgnoresEscape ==
    /\ app.pc = "ProcessInput"
    /\ LET delta == input.mouseDelta
       IN  cameraState' = Rotated(cameraState, delta[1] \div PixelsPerDegree,
                                  (-delta[2]) \div PixelsPerDegree)
    /\ input' = [input EXCEPT !.mouseDelta = <<0, 0>>, !.moved = <<0, 0>>]
    /\ app' = [app EXCEPT !.pc = "Update"]
    /\ glCalls' = <<>>
    /\ lastCall' = AppCall("ProcessInput", 0)
    /\ UNCHANGED <<rVars, cameras, activeCameras, mainCamera, allocated, appFrame>>

\* Application::ProcessInput: CameraController::Update (no movement key is
\* down: Move gets the zero vector), then the escape test
ProcessInput ==
    /\ app.pc = "ProcessInput"
    /\ LET delta == input.mouseDelta
       IN  cameraState' = Rotated(cameraState, delta[1] \div PixelsPerDegree,
                                  (-delta[2]) \div PixelsPerDegree)
    /\ input' = [input EXCEPT !.mouseDelta = <<0, 0>>, !.moved = <<0, 0>>]
    /\ app' = [app EXCEPT
                  !.pc = "Update",
                  !.running = IF /\ "GLFW_KEY_ESCAPE" \in DOMAIN input.keyStates
                                 /\ input.keyStates["GLFW_KEY_ESCAPE"]
                              THEN FALSE ELSE @]
    /\ glCalls' = <<>>
    /\ lastCall' = AppCall("ProcessInput", 0)
    /\ UNCHANGED <<rVars, cameras, activeCameras, mainCamera, allocated, appFrame>>

\* Application::Update: moves earth and moon
Update ==
    /\ app.pc = "Update"
    /\ app' = [app EXCEPT !.pc = "AddRenderObject"]
    /\ glCalls' = <<>>
    /\ lastCall' = AppCall("Update", 0)
    /\ UNCHANGED <<rVars, cameras, activeCameras, mainCamera, allocated,
                   cameraState, input, appFrame>>

\* Application::Render: renderer->AddRenderObject(sun), (earth), (moon)
RenderAdd ==
    /\ app.pc = "AddRenderObject"
    /\ sceneObjects' = Append(sceneObjects, SceneOrder[app.submitted + 1])
    /\ app' = [app EXCEPT !.submitted = @ + 1,
                          !.pc = IF app.submitted + 1 = Len(SceneOrder)
                                 THEN "RenderFrame" ELSE "AddRenderObject"]
    /\ glCalls' = <<>>
    /\ lastCall' = AppCall("AddRenderObject", SceneOrder[app.submitted + 1])
    /\ UNCHANGED <<shader, boundFBO, frameCameras, cameras, activeCameras,
                   mainCamera, allocated, cameraState, input, appFrame>>

\* Application::Render: RenderFrame(cameraManager->GetActiveCameras())
RenderRenderFrame ==
    /\ app.pc = "RenderFrame"
    /\ frameCameras' = GetActiveCameras
    /\ LET result == RenderFrameResult(GetActiveCameras, boundFBO)
       IN  /\ glCalls' = result.calls
           /\ boundFBO' = result.bound
    /\ app' = [app EXCEPT !.pc = "ResetSceneObjects", !.rendered = @ + 1]
    /\ lastCall' = AppCall("RenderFrame", 0)
    /\ UNCHANGED <<shader, sceneObjects, cameras, activeCameras, mainCamera,
                   allocated, cameraState, input, appFrame>>

\* variant of RenderReset: the object list is not cleared
RenderResetKeepsList ==
    /\ app.pc = "ResetSceneObjects"
    /\ app' = [app EXCEPT !.pc = "SwapBuffers", !.resets = @ + 1]
    /\ glCalls' = <<>>
    /\ lastCall' = AppCall("ResetSceneObjects", 0)
    /\ UNCHANGED <<rVars, cameras, activeCameras, mainCamera,
                   allocated, cameraState, input, appFrame>>

\* Application::Render: renderer->ResetSceneObjects()
RenderReset ==
    /\ app.pc = "ResetSceneObjects"
    /\ sceneObjects' = <<>>
    /\ app' = [app EXCEPT !.pc = "SwapBuffers", !.resets = @ + 1]
    /\ glCalls' = <<>>
    /\ lastCall' = AppCall("ResetSceneObjects", 0)
    /\ UNCHANGED <<shader, boundFBO, frameCameras, cameras, activeCameras, mainCamera,
                   allocated, cameraState, input, appFrame>>

\* Application::Render: window->SwapBuffers(), the end of the frame
RenderSwap ==
    /\ app.pc = "SwapBuffers"
    /\ app' = [app EXCEPT !.pc = "while", !.frames = @ + 1]
    /\ glCalls' = <<>>
    /\ lastCall' = AppCall("SwapBuffers", 0)
    /\ UNCHANGED <<rVars, cameras, activeCameras, mainCamera, allocated,
                   cameraState, input, appFrame>>

----------------------------------------------------------------------------
(* SceneNode: src/src/Scene/SceneNode.cpp                                   *)
(*                                                                         *)
(* A SceneNode* is the number of the node's slot, 0 is nullptr.  A node's   *)
(* local matrix is what localTransform.GetModelMatrix() returns.            *)

\* at most this many SceneNode objects are constructed
MaxNodes == 3

NodeSlots == 1..MaxNodes

\* GetWorldMatrix calls nested deeper than this exhaust the stack
MaxRecursion == MaxNodes + 2

\* the variables the SceneNode functions leave alone
nodeFrame == <<cmVars, rVars, meshes, gpu, sphere, transform, cameraState, input, app>>

\* a SceneNode: localTransform (as its model matrix), parent, children
NodeObject(life, local, parent, children) ==
    [life |-> life, local |-> local, parent |-> parent, children |-> children]

\* SceneNode::SceneNode: identity transform, parent = nullptr, no children
NewNode == NodeObject("live", Identity4, 0, <<>>)

\* no node constructed yet
NoNodes == [n \in NodeSlots |-> NodeObject("unborn", Identity4, 0, <<>>)]

LiveNodes == {n \in NodeSlots : nodes[n].life = "live"}

\* the slot the next constructed node takes
FreshNode ==
    {n \in NodeSlots : /\ nodes[n].life = "unborn"
                       /\ \A k \in 1..(n - 1) : nodes[k].life # "unborn"}

\* a SceneNode function, the node it is called on, its argument, whether it
\* returned, and the value it returned
NodeCall(op, self, arg, returned, value) ==
    [op |-> op, self |-> self, arg |-> arg, returned |-> returned, value |-> value]

\* the process is still running: no GetWorldMatrix call has exhausted the stack
NodeRunning == ~(lastCall.op = "GetWorldMatrix" /\ ~lastCall.returned)

\* SceneNode node(name): a node constructed by the caller
NodeConstruct(n) ==
    /\ NodeRunning
    /\ nodes[n].life = "unborn"
    /\ nodes' = [nodes EXCEPT ![n] = NewNode]
    /\ lastCall' = NodeCall("SceneNode", n, 0, TRUE, 0)
    /\ glCalls' = <<>>
    /\ UNCHANGED nodeFrame

\* the transform setters reached through GetTransform()
NodeSetLocal(n, local) ==
    /\ NodeRunning
    /\ nodes[n].life = "live"
    /\ nodes' = [nodes EXCEPT ![n].local = local]
    /\ lastCall' = NodeCall("GetTransform", n, local, TRUE, 0)
    /\ glCalls' = <<>>
    /\ UNCHANGED nodeFrame

\* SceneNode::SetParent
SetParent(n, newParent) ==
    /\ NodeRunning
    /\ nodes[n].life = "live"
    /\ nodes' = [nodes EXCEPT ![n].parent = newParent]
    /\ lastCall' = NodeCall("SetParent", n, newParent, TRUE, 0)
    /\ glCalls' = <<>>
    /\ UNCHANGED nodeFrame

\* SceneNode::CreateChild: the child is constructed in slot c, pushed onto
\* children, and its SetParent(this) is called
CreateChild(n, c) ==
    /\ NodeRunning
    /\ nodes[n].life = "live"
    /\ nodes[c].life = "unborn"
    /\ nodes' = [nodes EXCEPT ![n].children = Append(@, c),
                              ![c] = [NewNode EXCEPT !.parent = n]]
    /\ lastCall' = NodeCall("CreateChild", n, 0, TRUE, c)
    /\ glCalls' = <<>>
    /\ UNCHANGED nodeFrame

\* the value of n->GetWorldMatrix() called at recursion depth `depth`:
\* parent->GetWorldMatrix() * local, or local without a parent
RECURSIVE WorldMatrix(_, _)
WorldMatrix(n, depth) ==
    IF depth > MaxRecursion
    THEN [returned |-> FALSE, value |-> Identity4]
    ELSE IF nodes[n].parent # 0
    THEN LET up == WorldMatrix(nodes[n].parent, depth + 1)
         IN  IF up.returned
             THEN [returned |-> TRUE, value |-> MatMul(up.value, nodes[n].local)]
             ELSE up
    ELSE [returned |-> TRUE, value |-> nodes[n].local]

\* SceneNode::GetWorldMatrix
GetWorldMatrix(n) ==
    /\ NodeRunning
    /\ nodes[n].life = "live"
    /\ LET world == WorldMatrix(n, 1)
       IN  lastCall' = NodeCall("GetWorldMatrix", n, 0, world.returned, world.value)
    /\ glCalls' = <<>>
    /\ UNCHANGED <<nodes, nodeFrame>>

\* the nodes n->UpdateHierarchy(dt) calls Update on, in the order of the
\* calls: n, then the hierarchies of its children from child k on
RECURSIVE Hierarchy(_, _)
Hierarchy(n, k) ==
    (IF k = 1 THEN <<n>> ELSE <<>>)
       \o (IF k > Len(nodes[n].children) THEN <<>>
           ELSE Hierarchy(nodes[n].children[k], 1) \o Hierarchy(n, k + 1))

\* SceneNode::UpdateHierarchy; SceneNode::Update does nothing
UpdateHierarchy(n) ==
    /\ NodeRunning
    /\ nodes[n].life = "live"
    /\ lastCall' = NodeCall("UpdateHierarchy", n, 0, TRUE, Hierarchy(n, 1))
    /\ glCalls' = <<>>
    /\ UNCHANGED <<nodes, nodeFrame>>

----------------------------------------------------------------------------
(* Specifications                                                           *)

Init ==
    /\ cameras = [n \in {} |-> DefaultData]
    /\ activeCameras = <<>>
    /\ mainCamera = NullCamera
    /\ allocated = 0
    /\ deleted = <<>>
    /\ destroyed = FALSE
    /\ shader = NullShader
    /\ sceneObjects = <<>>
    /\ boundFBO = ToUInt(0)
    /\ glCalls = <<>>
    /\ frameCameras = <<>>
    /\ toggle = NoToggle
    /\ lastCall = Call("construct", "", FALSE, DefaultData, "ok")
    /\ meshes = NoMeshes
    /\ gpu = NoNames
    /\ nodes = NoNodes
    /\ app = NoApplication
    /\ input = NoInput
    /\ cameraState = NewCamera3D(<<0, 0, 3>>)
    /\ transform = NewTransform
    /\ sphere = NoSphere

Next ==
    \/ \E name \in Names, camera \in {NullCamera} \cup ExternalCameras, t \in RenderTargets :
          AddCamera(name, camera, t[1], t[2], t[3])
    \/ \E s \in WindowSizes : CreateMainCamera(s[1], s[2])
    \/ \E name \in Names, t \in RenderTargets : CreateMainCameraNamed(name, t[1], t[2], t[3])
    \/ \E name \in Names, active \in BOOLEAN : SetActive(name, active)
    \/ \E name \in Names : GetCameraData(name)
    \/ Destructor

Spec == Init /\ [][Next]_vars

NextRenderer ==
    \/ \E loaded \in BOOLEAN : Initialize(loaded)
    \/ \E object \in RendererObjects : AddRenderObject(object)
    \/ RenderFrame(frameCameras)
    \/ ResetSceneObjects

\* the renderer under every camera list of FrameEntries up to MaxCams entries
InitRenderer ==
    /\ frameCameras \in SeqsUpTo(FrameEntries, MaxCams)
    /\ cameras = [n \in {} |-> DefaultData]
    /\ activeCameras = <<>>
    /\ mainCamera = NullCamera
    /\ allocated = 0
    /\ deleted = <<>>
    /\ destroyed = FALSE
    /\ shader = NullShader
    /\ sceneObjects = <<>>
    /\ boundFBO = ToUInt(0)
    /\ glCalls = <<>>
    /\ toggle = NoToggle
    /\ lastCall = Call("construct", "", FALSE, DefaultData, "ok")
    /\ meshes = NoMeshes
    /\ gpu = NoNames
    /\ nodes = NoNodes
    /\ app = NoApplication
    /\ input = NoInput
    /\ cameraState = NewCamera3D(<<0, 0, 3>>)
    /\ transform = NewTransform
    /\ sphere = NoSphere

SpecRenderer == InitRenderer /\ [][NextRenderer]_vars

\* the renderer under the camera lists of one more entry, which a framebuffer
\* used again after another one needs
InitRendererLong ==
    /\ frameCameras \in SeqsUpTo(FrameEntries, MaxCams + 1)
    /\ cameras = [n \in {} |-> DefaultData]
    /\ activeCameras = <<>>
    /\ mainCamera = NullCamera
    /\ allocated = 0
    /\ deleted = <<>>
    /\ destroyed = FALSE
    /\ shader = NullShader
    /\ sceneObjects = <<>>
    /\ boundFBO = ToUInt(0)
    /\ glCalls = <<>>
    /\ toggle = NoToggle
    /\ lastCall = Call("construct", "", FALSE, DefaultData, "ok")
    /\ meshes = NoMeshes
    /\ gpu = NoNames
    /\ nodes = NoNodes
    /\ app = NoApplication
    /\ input = NoInput
    /\ cameraState = NewCamera3D(<<0, 0, 3>>)
    /\ transform = NewTransform
    /\ sphere = NoSphere

SpecRendererLong == InitRendererLong /\ [][NextRenderer]_vars

\* Mesh objects take their slots in the order of their construction
NewMesh ==
    {m \in MeshSlots : /\ meshes[m].life = "unborn"
                       /\ \A k \in 1..(m - 1) : meshes[k].life # "unborn"}

NextMesh ==
    \/ \E m \in NewMesh, d \in MeshData : MeshConstruct(m, d[1], d[2])
    \/ \E m \in NewMesh : MeshDefault(m)
    \/ \E m \in NewMesh, other \in MeshSlots : MeshMove(m, other)
    \/ \E m \in MeshSlots, other \in MeshSlots : MeshMoveAssign(m, other)
    \/ \E m \in MeshSlots : MeshDestroy(m)
    \/ \E m \in MeshSlots : MeshDrawCall(m)

SpecMesh == Init /\ [][NextMesh]_vars

\* CreateSphere under every pair of arguments up to MaxSectors and MaxStacks
InitSphere ==
    /\ sphere \in {SphereCall(sectors, stacks, FALSE, <<>>, <<>>) :
                      sectors \in 0..MaxSectors, stacks \in 0..MaxStacks}
    /\ cameras = [n \in {} |-> DefaultData]
    /\ activeCameras = <<>>
    /\ mainCamera = NullCamera
    /\ allocated = 0
    /\ deleted = <<>>
    /\ destroyed = FALSE
    /\ shader = NullShader
    /\ sceneObjects = <<>>
    /\ boundFBO = ToUInt(0)
    /\ glCalls = <<>>
    /\ frameCameras = <<>>
    /\ toggle = NoToggle
    /\ lastCall = Call("construct", "", FALSE, DefaultData, "ok")
    /\ meshes = NoMeshes
    /\ gpu = NoNames
    /\ nodes = NoNodes
    /\ app = NoApplication
    /\ input = NoInput
    /\ cameraState = NewCamera3D(<<0, 0, 3>>)
    /\ transform = NewTransform

NextSphere ==
    \/ \E m \in NewMesh : CreateSphere(m)

SpecSphere == InitSphere /\ [][NextSphere]_vars

\* arguments handed to the Transform mutators
Positions == {<<4, 0, 0>>}

Deltas == {<<-4, 0, 0>>}

Quats == {Quat(2, 2), Quat(0, 0)}

EulerAngles == {<<0, 180, 0>>}

AxisAngles == {<<<<0, 2, 0>>, 180>>}

Scales == {<<1, 1, 1>>}

Factors == {<<2, 2, 1>>}

\* LookAt targets, relative to the position: the position itself, a point
\* half of 1e-6 away, and a point further than 1e-6 away
LookOffsets == {<<0, 0, 0>>, <<0, 0, -1>>, <<0, 0, 4>>}

\* a default-constructed Transform; its caches hold whatever the matrix
\* default constructor leaves there
InitTransform ==
    /\ transform \in {[NewTransform EXCEPT !.modelMatrixCache = M,
                                           !.normalMatricCahe = NormalMatrix(M)] :
                         M \in {Identity4, ScaleMatrix(<<0, 0, 0>>)}}
    /\ cameras = [n \in {} |-> DefaultData]
    /\ activeCameras = <<>>
    /\ mainCamera = NullCamera
    /\ allocated = 0
    /\ deleted = <<>>
    /\ destroyed = FALSE
    /\ shader = NullShader
    /\ sceneObjects = <<>>
    /\ boundFBO = ToUInt(0)
    /\ glCalls = <<>>
    /\ frameCameras = <<>>
    /\ toggle = NoToggle
    /\ lastCall = TransformCall("Transform", 0, 0)
    /\ meshes = NoMeshes
    /\ gpu = NoNames
    /\ nodes = NoNodes
    /\ app = NoApplication
    /\ input = NoInput
    /\ cameraState = NewCamera3D(<<0, 0, 3>>)
    /\ sphere = NoSphere

NextTransform ==
    \/ GetModelMatrix
    \/ GetNormalMatrix
    \/ \E pos \in Positions : SetPosition(pos)
    \/ \E delta \in Deltas : Translate(delta)
    \/ \E quat \in Quats : SetRotation(quat)
    \/ \E e \in EulerAngles : SetRotationEuler(e)
    \/ \E e \in EulerAngles : RotateEuler(e)
    \/ \E a \in AxisAngles : RotateAxisAngle(a[1], a[2])
    \/ \E delta \in Quats : RotateByQuat(delta)
    \/ \E scl \in Scales : SetScale(scl)
    \/ \E factor \in Factors : ScaleBy(factor)
    \/ \E o \in LookOffsets :
          LookAt([i \in 1..3 |-> FAdd(transform.position[i], o[i])], <<0, 1, 0>>)

SpecTransform == InitTransform /\ [][NextTransform]_vars

\* arguments handed to Camera::Rotate and Camera::Move
YawDeltas == {-30, 0, 30}

PitchDeltas == {-100, 0, 60}

MoveDeltas == {<<0, 0, -1>>}

NextCamera ==
    \/ \E delta \in MoveDeltas : Move(delta)
    \/ \E yawDelta \in YawDeltas, pitchDelta \in PitchDeltas : Rotate(yawDelta, pitchDelta)

SpecCamera == Init /\ [][NextCamera]_vars

\* keys and key actions delivered to Input::KeyCallback
Keys == {"GLFW_KEY_W", "GLFW_KEY_ESCAPE"}

KeyActions == {"GLFW_PRESS", "GLFW_RELEASE", "GLFW_REPEAT"}

NextInput ==
    \/ \E key \in Keys : IsKeyPressed(key)
    \/ GetMousePosition
    \/ GetMouseDelta
    \/ \E key \in Keys, action \in KeyActions : KeyCallback(key, action)
    \/ \E xpos \in 0..MaxCursor, ypos \in 0..1 : CursorPosCallback(xpos, ypos)

SpecInput == Init /\ [][NextInput]_vars

\* events glfwPollEvents delivers in one call
AppEvents == {"none", "press ESCAPE", "release ESCAPE", "close window"}

NextApp ==
    \/ \E s \in WindowSizes : AppConstruct(s[1], s[2])
    \/ \E loaded \in BOOLEAN : RunInitialize(loaded)
    \/ LoopTest
    \/ \E event \in AppEvents : PollEvents(event)
    \/ ProcessInput
    \/ Update
    \/ RenderAdd
    \/ RenderRenderFrame
    \/ RenderReset
    \/ RenderSwap

SpecApp == Init /\ [][NextApp]_vars

\* Run is one thread: a call that can be made is made
SpecAppFair == SpecApp /\ WF_vars(NextApp)

\* the model matrices a node's localTransform is given
LocalMatrices == {TranslateMatrix(<<4, 0, 0>>), ScaleMatrix(<<2, 2, 1>>)}

NextNode ==
    \/ \E n \in FreshNode : NodeConstruct(n)
    \/ \E n \in LiveNodes, local \in LocalMatrices : NodeSetLocal(n, local)
    \/ \E n \in LiveNodes, newParent \in {0} \cup LiveNodes : SetParent(n, newParent)
    \/ \E n \in LiveNodes, c \in FreshNode : CreateChild(n, c)
    \/ \E n \in LiveNodes : GetWorldMatrix(n)
    \/ \E n \in LiveNodes : UpdateHierarchy(n)

SpecNode == Init /\ [][NextNode]_vars

----------------------------------------------------------------------------
(* Observations used by the properties                                      *)

\* positions of the call log that carry `call` for camera pass cam, object obj
Issued(call, cam, obj) ==
    \E k \in 1..Len(glCalls) :
        /\ glCalls[k].call = call
        /\ glCalls[k].cam = cam
        /\ glCalls[k].obj = obj

\* the camera passes of the last RenderFrame: list positions DrawScene ran for
Passes == {c \in 1..Len(frameCameras) : Issued("DrawScene", c, 0)}

\* number of times pointer p was handed to `delete`
TimesDeleted(p) == Cardinality({k \in 1..Len(deleted) : deleted[k] = p})

\* same camera reference, viewport, framebuffer and render layer
SameRenderData(d, e) ==
    /\ d.name = e.name
    /\ d.camera = e.camera
    /\ d.viewport = e.viewport
    /\ d.framebuffer = e.framebuffer
    /\ d.renderLayer = e.renderLayer

----------------------------------------------------------------------------
(* Properties                                                               *)

\* C1: every entry of GetActiveCameras carries the name of a registry entry
\* whose active flag is true.  (Stated as claimed; the code violates it.)
C1_ActiveEntriesAreActiveInRegistry ==
    \A i \in 1..Len(GetActiveCameras) :
        /\ GetActiveCameras[i].name \in DOMAIN cameras
        /\ cameras[GetActiveCameras[i].name].active

\* C2: after SetActive(X, false) has returned normally, GetActiveCameras holds
\* no entry named X.  (Stated as claimed; the code violates it.)
C2_DeactivatedNameAbsent ==
    (lastCall.op = "SetActive" /\ ~lastCall.flag /\ lastCall.result = "ok")
        => \A i \in 1..Len(GetActiveCameras) : GetActiveCameras[i].name # lastCall.name

\* C3: SetActive(X, false) directly followed by SetActive(X, true) leaves in
\* GetActiveCameras an entry for X with the camera reference, viewport,
\* framebuffer and render layer X had in the registry before the deactivation.
C3_ReactivationRestoresData ==
    toggle.phase = "on"
        => \E i \in 1..Len(GetActiveCameras) :
              /\ SameRenderData(GetActiveCameras[i], toggle.entry)
              /\ GetActiveCameras[i].active

\* C3 witness: a deactivate/reactivate pair has run on an entry that renders
\* to an offscreen framebuffer, with another camera still in the list
C3_Witness ==
    /\ toggle.phase = "on"
    /\ toggle.entry.framebuffer # ToUInt(0)
    /\ Len(activeCameras) >= 2

\* C4: SetActive and GetCameraData on an unregistered name end with the
\* not-found error and leave the registry and the active list as they were.
C4_NotFoundLeavesStateUntouched ==
    [][ (/\ lastCall'.op \in {"SetActive", "GetCameraData"}
         /\ lastCall'.name \notin DOMAIN cameras)
        => (/\ lastCall'.result = "NotFound"
            /\ cameras' = cameras
            /\ activeCameras' = activeCameras) ]_vars

\* C4 witness: SetActive has thrown for an unregistered name while another
\* camera is registered and listed
C4_Witness ==
    /\ lastCall.op = "SetActive"
    /\ lastCall.result = "NotFound"
    /\ lastCall.name \notin DOMAIN cameras
    /\ activeCameras # <<>>

\* C5: GetActiveCameras holds exactly the registered cameras that are active
\* and have a non-null camera: each of them is in the list, and no entry of
\* the list has a null camera or is inactive.  (Stated as claimed; the code
\* violates it.)
C5_ActiveListIsExact ==
    /\ \A n \in DOMAIN cameras :
          (cameras[n].active /\ cameras[n].camera # NullCamera)
              => \E i \in 1..Len(GetActiveCameras) : GetActiveCameras[i] = cameras[n]
    /\ \A i \in 1..Len(GetActiveCameras) :
          /\ GetActiveCameras[i].camera # NullCamera
          /\ GetActiveCameras[i].active
          /\ GetActiveCameras[i].name \in DOMAIN cameras
          /\ cameras[GetActiveCameras[i].name].active

\* C6: AddCamera leaves the registry with an entry for the name that carries
\* the given camera, viewport, framebuffer and layer with active = true, and
\* with every other name's entry unchanged.
C6_AddCameraInsertsOrOverwrites ==
    [][ lastCall'.op = "AddCamera"
        => (/\ DOMAIN cameras' = DOMAIN cameras \cup {lastCall'.name}
            /\ cameras'[lastCall'.name] = lastCall'.data
            /\ cameras'[lastCall'.name].active
            /\ \A n \in DOMAIN cameras \ {lastCall'.name} : cameras'[n] = cameras[n]) ]_vars

\* C6 witness: AddCamera has overwritten an entry registered earlier with
\* other data, and a second name is registered
C6_Witness ==
    /\ lastCall.op = "AddCamera"
    /\ \E i \in 1..(Len(activeCameras) - 1) :
          /\ activeCameras[i].name = lastCall.name
          /\ ~SameRenderData(activeCameras[i], lastCall.data)
    /\ Cardinality(DOMAIN cameras) = 2

\* C7: every Camera allocated by CreateMainCamera is deleted exactly once by
\* the manager's destruction, and never twice.  (Stated as claimed; the code
\* violates it.)
C7_AllocatedCamerasFreedOnce ==
    /\ \A k \in 1..allocated : TimesDeleted(NewCamera(k)) <= 1
    /\ destroyed => \A k \in 1..allocated : TimesDeleted(NewCamera(k)) = 1

\* C8: RenderFrame with an empty camera list issues no graphics call and
\* leaves the submitted object list (and the bound framebuffer) unchanged.
C8_EmptyFrameIsNoOp ==
    [][ (lastCall'.op = "RenderFrame" /\ frameCameras = <<>>)
        => (/\ glCalls' = <<>>
            /\ sceneObjects' = sceneObjects
            /\ boundFBO' = boundFBO) ]_vars

\* C8 witness: RenderFrame has run on the empty list with a loaded shader and
\* objects submitted
C8_Witness ==
    /\ lastCall.op = "RenderFrame"
    /\ frameCameras = <<>>
    /\ shader # NullShader
    /\ Len(sceneObjects) >= 2

\* C9 as claimed: in every camera pass, Mesh::Draw is called for a submitted
\* object exactly if the object's layer equals the camera's.  (Violated: with
\* no shader loaded DrawScene returns before its loop.)
C9_DrawnIffLayerMatches ==
    lastCall.op = "RenderFrame"
        => \A c \in Passes : \A i \in 1..Len(sceneObjects) :
              Issued("Mesh::Draw", c, i)
                  <=> ObjectPool[sceneObjects[i]].renderLayer = frameCameras[c].renderLayer

\* C9 amended: in every camera pass a draw is issued for an object only if the
\* layers are equal; with the shader loaded, Mesh::Draw is called exactly for
\* the objects whose layer equals the camera's; without a shader none is.
C9_DrawnIffLayerMatchesAndShaderLoaded ==
    lastCall.op = "RenderFrame"
        => \A c \in Passes : \A i \in 1..Len(sceneObjects) :
              LET same == ObjectPool[sceneObjects[i]].renderLayer = frameCameras[c].renderLayer
              IN  /\ Issued("Mesh::Draw", c, i) <=> (same /\ shader # NullShader)
                  /\ Issued("glDrawElements", c, i) => Issued("Mesh::Draw", c, i)

\* C9 witness: a pass of a layer-1 camera over two or more objects, all of
\* layer 0, with the shader loaded, has issued no draw
C9_Witness ==
    /\ lastCall.op = "RenderFrame"
    /\ shader # NullShader
    /\ Len(sceneObjects) >= 2
    /\ \A i \in 1..Len(sceneObjects) : ObjectPool[sceneObjects[i]].renderLayer = 0
    /\ \E c \in Passes :
          /\ frameCameras[c].renderLayer = 1
          /\ \A i \in 1..Len(sceneObjects) : ~Issued("Mesh::Draw", c, i)
    /\ \E c \in Passes : \E i \in 1..Len(sceneObjects) : Issued("glDrawElements", c, i)

\* C10: when RenderFrame has returned, the default framebuffer is bound.
C10_DefaultFramebufferBoundAfterFrame ==
    lastCall.op = "RenderFrame" => boundFBO = ToUInt(0)

\* C10 witness: RenderFrame has returned after binding two different
\* non-default framebuffers
C10_Witness ==
    /\ lastCall.op = "RenderFrame"
    /\ \E k, l \in 1..Len(glCalls) :
          /\ glCalls[k].call = "glBindFramebuffer"
          /\ glCalls[l].call = "glBindFramebuffer"
          /\ glCalls[k].arg # ToUInt(0)
          /\ glCalls[l].arg # ToUInt(0)
          /\ glCalls[k].arg # glCalls[l].arg

\* the live Mesh objects
LiveMeshes == {m \in MeshSlots : meshes[m].life = "live"}

\* the non-zero buffer names Mesh object m holds
BufferNames(m) == {meshes[m].VBO, meshes[m].EBO} \ {0}

\* C11: after a move construction the source holds VAO = VBO = EBO = 0, and
\* destroying a moved-from Mesh issues no GPU delete call.  (Stated as
\* claimed; ~Mesh issues its three delete calls whatever the handles are.)
C11_MovedFromDestructorIssuesNoCall ==
    /\ \A m \in LiveMeshes :
          meshes[m].movedFrom =>
              meshes[m].VAO = 0 /\ meshes[m].VBO = 0 /\ meshes[m].EBO = 0
    /\ (lastCall.op = "~Mesh" /\ lastCall.movedFrom) => glCalls = <<>>

\* C11 (amended): after a move construction the source holds VAO = VBO =
\* EBO = 0, and destroying a moved-from Mesh deletes no GPU object: each of
\* the three delete calls it issues names the handle 0.
C11_MovedFromDestructorDeletesNothing ==
    /\ \A m \in LiveMeshes :
          meshes[m].movedFrom =>
              meshes[m].VAO = 0 /\ meshes[m].VBO = 0 /\ meshes[m].EBO = 0
    /\ (lastCall.op = "~Mesh" /\ lastCall.movedFrom) =>
          \A k \in 1..Len(glCalls) : glCalls[k].arg = 0

\* a moved-from source has been destroyed while the Mesh that took its
\* handles is alive
C11_Witness ==
    /\ lastCall.op = "~Mesh"
    /\ lastCall.movedFrom
    /\ Len(glCalls) = 3
    /\ \E m \in LiveMeshes : meshes[m].VAO # 0

\* C12: no generated handle is deleted more than once, no two live Mesh
\* objects hold the same non-zero handle, and once no Mesh object is alive
\* every generated handle has been deleted.
C12_HandlesOwnedOnceDeletedOnce ==
    /\ \A k \in 1..gpu.vaoGen : gpu.vaoDeleted[k] <= 1
    /\ \A k \in 1..gpu.bufGen : gpu.bufDeleted[k] <= 1
    /\ \A a, b \in LiveMeshes :
          a # b =>
              /\ meshes[a].VAO # 0 => meshes[a].VAO # meshes[b].VAO
              /\ BufferNames(a) \cap BufferNames(b) = {}
    /\ LiveMeshes = {} =>
          /\ \A k \in 1..gpu.vaoGen : gpu.vaoDeleted[k] = 1
          /\ \A k \in 1..gpu.bufGen : gpu.bufDeleted[k] = 1

\* every Mesh object is gone, two of them generated handles, and one of them
\* was a moved-from source when it was destroyed
C12_Witness ==
    /\ \A m \in MeshSlots : meshes[m].life = "dead"
    /\ gpu.vaoGen = 2
    /\ \E m \in MeshSlots : meshes[m].movedFrom

\* C13: a call of Mesh::Draw issues glDrawElements exactly when the mesh's
\* VAO is non-zero and its index list is non-empty; otherwise it reports an
\* error and issues no draw, and the frame goes on: the later objects of the
\* camera's layer are still handed to Mesh::Draw and the later active cameras
\* still get their pass.
C13_DrawGuardedAndFrameGoesOn ==
    lastCall.op = "RenderFrame"
        => \A c \in Passes : \A i \in 1..Len(sceneObjects) :
              LET mesh == ObjectPool[sceneObjects[i]]
                  drawable == mesh.VAO # 0 /\ mesh.indexCount # 0
              IN  Issued("Mesh::Draw", c, i) =>
                    /\ Issued("glDrawElements", c, i) <=> drawable
                    /\ Issued("glBindVertexArray", c, i) <=> drawable
                    /\ Issued("cerr [Mesh] Error: Cannot draw", c, i) <=> ~drawable
                    /\ ~drawable =>
                          /\ \A j \in (i + 1)..Len(sceneObjects) :
                                LayerMatches(ObjectPool[sceneObjects[j]], frameCameras[c])
                                    => Issued("Mesh::Draw", c, j)
                          /\ \A d \in (c + 1)..Len(frameCameras) :
                                (frameCameras[d].active /\ frameCameras[d].camera # NullCamera)
                                    => d \in Passes

\* C13 witness: a mesh with a VAO but no indices was refused, and after it
\* the same pass and a later pass each issued a draw
C13_Witness ==
    /\ lastCall.op = "RenderFrame"
    /\ \E c \in Passes : \E i \in 1..Len(sceneObjects) :
          /\ ObjectPool[sceneObjects[i]].VAO # 0
          /\ Issued("cerr [Mesh] Error: Cannot draw", c, i)
          /\ \E j \in (i + 1)..Len(sceneObjects) : Issued("glDrawElements", c, j)
          /\ \E d \in Passes : d > c /\ \E j \in 1..Len(sceneObjects) :
                                            Issued("glDrawElements", d, j)

\* C14: for sectors >= 3 and stacks >= 2, CreateSphere builds exactly
\* (stacks + 1) * (sectors + 1) vertices and 6 * sectors * (stacks - 1)
\* indices.
C14_SphereCounts ==
    (sphere.built /\ sphere.sectors >= 3 /\ sphere.stacks >= 2)
        => /\ Len(sphere.verts) = (sphere.stacks + 1) * (sphere.sectors + 1)
           /\ Len(sphere.inds) = 6 * sphere.sectors * (sphere.stacks - 1)

\* C14 witness: a sphere with rows between the two pole rows has been built
\* and handed to a Mesh
C14_Witness ==
    /\ sphere.built
    /\ sphere.sectors >= 3
    /\ sphere.stacks >= 3
    /\ \E m \in LiveMeshes : meshes[m].indexCount = Len(sphere.inds)
                              /\ meshes[m].indexCount > 0

\* C15: whenever the dirty flag is false the cached model matrix is T * R * S
\* of the current position, rotation and scale, and GetModelMatrix returns
\* that matrix.
C15_CleanCacheIsCurrent ==
    /\ ~transform.dirty =>
          transform.modelMatrixCache =
              ModelMatrix(transform.position, transform.rotation, transform.scale)
    /\ lastCall.op = "GetModelMatrix" =>
          lastCall.result =
              ModelMatrix(transform.position, transform.rotation, transform.scale)

\* C15 witness: GetModelMatrix recalculated the cache of a Transform that is
\* moved, turned and scaled
C15_Witness ==
    /\ lastCall.op = "GetModelMatrix"
    /\ lastCall.arg
    /\ transform.position # <<0, 0, 0>>
    /\ transform.rotation.k = 6
    /\ transform.scale = <<2, 2, 1>>
    /\ transform.modelMatrixCache = <<<<-2, 0, 0, -4>>, <<0, 2, 0, 0>>, <<0, 0, -1, 0>>, <<0, 0, 0, 1>>>>

\* C17: LookAt with a target less than 1e-6 from the position (the position
\* itself included) changes neither the rotation nor the dirty flag.
\* (Stated as claimed; the code violates it.)
C17_DegenerateLookAtIsNoOp ==
    [][(/\ lastCall'.op = "LookAt"
        /\ Length(VSub(lastCall'.arg, transform.position)) < Micro)
          => /\ transform'.rotation = transform.rotation
             /\ transform'.dirty = transform.dirty]_vars

\* C16: after any sequence of Camera::Rotate calls the pitch lies within
\* [-89, 89].  (Stated as claimed; the code violates it.)
C16_PitchWithinLimits ==
    cameraState.pitch >= -89 /\ cameraState.pitch <= 89

\* C20: GetMouseDelta consumes the delta: it leaves mouseDelta at (0, 0), and
\* a call that directly follows another GetMouseDelta, with no cursor event
\* in between, returns (0, 0).
C20_MouseDeltaConsumedOnRead ==
    lastCall.op = "GetMouseDelta"
        => /\ input.mouseDelta = <<0, 0>>
           /\ lastCall.priorOp = "GetMouseDelta" => lastCall.result = <<0, 0>>

\* C20 witness: a read returned a cursor movement and the read directly
\* after it returned (0, 0)
C20_Witness ==
    /\ lastCall.op = "GetMouseDelta"
    /\ lastCall.priorOp = "GetMouseDelta"
    /\ lastCall.priorResult # <<0, 0>>
    /\ lastCall.result = <<0, 0>>

\* C19: in the calls of one RenderFrame the camera passes follow the order of
\* the camera list, no call of a pass comes after a call of a later pass, and
\* within a pass the objects are drawn in the order of submission, only
\* objects of the camera's layer among them.
C19_PassesAndDrawsInOrder ==
    lastCall.op = "RenderFrame"
        => \A k, l \in 1..Len(glCalls) :
              (k < l /\ glCalls[k].cam >= 1 /\ glCalls[l].cam >= 1) =>
                  /\ glCalls[k].cam <= glCalls[l].cam
                  /\ (glCalls[k].cam = glCalls[l].cam /\ glCalls[k].obj >= 1 /\ glCalls[l].obj >= 1)
                        => /\ glCalls[k].obj <= glCalls[l].obj
                           /\ LayerMatches(ObjectPool[sceneObjects[glCalls[k].obj]],
                                           frameCameras[glCalls[k].cam])
                           /\ LayerMatches(ObjectPool[sceneObjects[glCalls[l].obj]],
                                           frameCameras[glCalls[l].cam])

\* C19 witness: a frame with two passes, the earlier one handing both
\* submitted objects to Mesh::Draw and the later one drawing as well
C19_Witness ==
    /\ lastCall.op = "RenderFrame"
    /\ Len(sceneObjects) = 2
    /\ \E c, d \in Passes :
          /\ c < d
          /\ Issued("Mesh::Draw", c, 1)
          /\ Issued("Mesh::Draw", c, 2)
          /\ Issued("Mesh::Draw", d, 2)

\* the calls of Application::Render that come after the object list is
\* complete
AfterSubmission == {"RenderFrame", "ResetSceneObjects", "SwapBuffers"}

\* C18: in the frame loop the renderer's object list is empty when a frame
\* starts, holds only what the current frame has submitted, each object once,
\* while the frame accumulates and renders, and is cleared by the single
\* ResetSceneObjects that follows the single RenderFrame of the frame; no
\* object is handed to Mesh::Draw twice in one camera pass.
C18_ObjectListCyclesPerFrame ==
    /\ app.pc \in {"while", "glfwPollEvents", "ProcessInput", "Update", "return"}
          => sceneObjects = <<>>
    /\ app.pc \in {"AddRenderObject"} \cup AfterSubmission
          => /\ app.pc # "SwapBuffers" => Len(sceneObjects) = app.submitted
             /\ Len(sceneObjects) <= Len(SceneOrder)
             /\ \A i, j \in 1..Len(sceneObjects) :
                   i # j => sceneObjects[i] # sceneObjects[j]
    /\ app.pc = "AddRenderObject" => app.rendered = 0 /\ app.resets = 0
    /\ app.pc = "RenderFrame" => app.rendered = 0 /\ app.resets = 0
    /\ app.pc = "ResetSceneObjects" => app.rendered = 1 /\ app.resets = 0
    /\ app.pc = "SwapBuffers" => app.rendered = 1 /\ app.resets = 1 /\ sceneObjects = <<>>
    /\ app.pc = "ResetSceneObjects"
          => \A c \in Passes : \A o \in DOMAIN ObjectPool :
                Cardinality({i \in 1..Len(sceneObjects) :
                                sceneObjects[i] = o /\ Issued("Mesh::Draw", c, i)}) <= 1

\* C18 witness: the second frame has drawn sun, earth and moon for the main
\* camera and is about to clear the list
C18_Witness ==
    /\ app.pc = "ResetSceneObjects"
    /\ app.frames = 1
    /\ sceneObjects = SceneOrder
    /\ \E c \in Passes : \A i \in 1..3 : Issued("glDrawElements", c, i)

\* the calls of one iteration of the loop of Run
FrameSteps == {"glfwPollEvents", "ProcessInput", "Update", "AddRenderObject",
               "RenderFrame", "ResetSceneObjects", "SwapBuffers"}

\* ProcessInput has just seen the escape key down
EscapeObserved ==
    /\ lastCall.op = "ProcessInput"
    /\ "GLFW_KEY_ESCAPE" \in DOMAIN input.keyStates
    /\ input.keyStates["GLFW_KEY_ESCAPE"]

\* one step of Run keeps the order of the loop
RunOrder ==
    /\ app.pc = "glfwPollEvents" => app'.pc = "ProcessInput"
    /\ app.pc = "ProcessInput" => app'.pc = "Update"
    /\ app.pc = "Update" => app'.pc = "AddRenderObject"
    /\ app.pc = "AddRenderObject" => app'.pc \in {"AddRenderObject", "RenderFrame"}
    /\ app.pc = "RenderFrame" => app'.pc = "ResetSceneObjects"
    /\ app.pc = "ResetSceneObjects" => app'.pc = "SwapBuffers"
    /\ app.pc = "SwapBuffers" => app'.pc = "while" /\ app'.frames = app.frames + 1
    /\ app.pc = "while" /\ (~app.running \/ app.shouldClose) => app'.pc = "return"
    /\ app.pc = "while" /\ app.running /\ ~app.shouldClose => app'.pc = "glfwPollEvents"
    /\ app.pc \in FrameSteps => app'.frames >= app.frames
    /\ ~app.running => ~app'.running
    /\ app.shouldClose => app'.shouldClose

\* C21: an iteration of Run is glfwPollEvents, ProcessInput, Update, Render in
\* this order and a started iteration is carried to its end; once the window
\* reports close or ProcessInput has seen the escape key, the iteration in
\* progress is finished, no other one starts and Run returns.
C21_FrameOrderAndReturn ==
    /\ [][RunOrder]_vars
    /\ (app.pc \in FrameSteps /\ (app.shouldClose \/ EscapeObserved))
          ~> (app.pc = "return")
    /\ [](app.pc \in FrameSteps => <>(app.pc = "while"))

\* C21 witness: Run has returned after two whole frames, the escape key seen
\* in the second one
C21_Witness ==
    /\ app.pc = "return"
    /\ app.frames = 2
    /\ ~app.running
    /\ ~app.shouldClose

\* positions of the call log where RenderFrame's loop binds framebuffer f
LoopBinds(f) ==
    {k \in 1..Len(glCalls) : /\ glCalls[k].call = "glBindFramebuffer"
                             /\ glCalls[k].cam # 0
                             /\ glCalls[k].arg = f}

\* C22: within one RenderFrame call every framebuffer id is bound at most once
\* before the final bind of the default framebuffer.  (Stated as claimed; the
\* code violates it.)
C22_EachFramebufferBoundOnce ==
    lastCall.op = "RenderFrame"
       => \A c \in 1..Len(frameCameras) :
             Cardinality(LoopBinds(frameCameras[c].framebuffer)) <= 1

\* the calls of the last RenderFrame that belong to entry c of the camera list
CallsOf(c) == SelectSeq(glCalls, LAMBDA e : e.cam = c)

\* entry c of the camera list is one RenderFrame skips
Skipped(c) == ~frameCameras[c].active \/ frameCameras[c].camera = NullCamera

\* C23: for an entry of the camera list that is active and has a camera,
\* RenderFrame sets the viewport to the entry's rectangle, then clears colour
\* and depth, then calls DrawScene, each once and in this order (only a
\* framebuffer bind may come before the viewport); for an inactive entry and
\* for an entry with a null camera it issues no call at all.
C23_ViewportClearDrawOrSkip ==
    lastCall.op = "RenderFrame"
       => \A c \in 1..Len(frameCameras) :
             LET s == CallsOf(c)
                 b == IF s # <<>> /\ s[1].call = "glBindFramebuffer" THEN 1 ELSE 0
             IN  IF Skipped(c)
                 THEN s = <<>>
                 ELSE /\ Len(s) >= b + 4
                      /\ s[b + 1].call = "glViewport"
                      /\ s[b + 1].arg = frameCameras[c].viewport
                      /\ s[b + 2].call = "glClearColor"
                      /\ s[b + 3].call = "glClear"
                      /\ s[b + 4].call = "DrawScene"
                      /\ \A k \in (b + 5)..Len(s) :
                            s[k].call \notin {"glBindFramebuffer", "glViewport",
                                              "glClearColor", "glClear", "DrawScene"}

\* C23 witness: a frame whose camera list has an inactive entry, skipped,
\* before an entry that is rendered
C23_Witness ==
    /\ lastCall.op = "RenderFrame"
    /\ shader # NullShader
    /\ Len(sceneObjects) >= 1
    /\ \E c, d \in 1..Len(frameCameras) :
          /\ c < d
          /\ Skipped(c)
          /\ ~frameCameras[c].active
          /\ d \in Passes

\* C24: GetMouseDelta returns the sum of the displacements CursorPosCallback
\* was given since the previous GetMouseDelta, the first callback counting
\* for nothing, however many callbacks ran in between.  (Stated as claimed;
\* the code violates it.)
C24_MouseDeltaIsSumSinceRead ==
    [][lastCall'.op = "GetMouseDelta" => lastCall'.result = input.moved]_vars

\* C25: the list GetActiveCameras returns holds at most one entry per camera
\* name, and that entry carries the camera, viewport, framebuffer and layer of
\* the registry entry of this name.  (Stated as claimed; the code violates
\* it.)
C25_OneCurrentEntryPerName ==
    ~destroyed =>
        /\ \A i, j \in 1..Len(activeCameras) :
              i # j => activeCameras[i].name # activeCameras[j].name
        /\ \A i \in 1..Len(activeCameras) :
              LET entry == activeCameras[i]
              IN  /\ entry.name \in DOMAIN cameras
                  /\ entry.camera = cameras[entry.name].camera
                  /\ entry.viewport = cameras[entry.name].viewport
                  /\ entry.framebuffer = cameras[entry.name].framebuffer
                  /\ entry.renderLayer = cameras[entry.name].renderLayer

\* C26: Camera::Rotate(0, 0) leaves yaw, pitch and the front vector as they
\* were, in every camera state, the freshly constructed one included.
\* (Stated as claimed; the code violates it.)
C26_ZeroRotationChangesNothing ==
    [][(lastCall'.op = "Rotate" /\ lastCall'.arg = <<0, 0>>)
          => /\ cameraState'.yaw = cameraState.yaw
             /\ cameraState'.pitch = cameraState.pitch
             /\ cameraState'.front = cameraState.front]_vars

\* C27: whenever RenderFrame calls DrawScene for a camera, the framebuffer
\* bound at that moment is the camera's framebuffer, whatever 32-bit id it
\* has and whatever the order of the cameras.  (Stated as claimed; the code
\* violates it.)
C27_DrawSceneIntoCameraFramebuffer ==
    lastCall.op = "RenderFrame"
       => \A k \in 1..Len(glCalls) :
             glCalls[k].call = "DrawScene"
                => glCalls[k].fbo = frameCameras[glCalls[k].cam].framebuffer

\* C28: for sectors >= 1 and stacks >= 1 every index CreateSphere emits is
\* smaller than the number of vertices it built, and the number of indices is
\* a multiple of 3.
C28_SphereIndicesInRange ==
    (sphere.built /\ sphere.sectors >= 1 /\ sphere.stacks >= 1)
        => /\ \A k \in 1..Len(sphere.inds) :
                 sphere.inds[k] >= 0 /\ sphere.inds[k] < Len(sphere.verts)
           /\ Len(sphere.inds) % 3 = 0

\* C28 witness: a sphere of a single sector has been built whose triangles
\* reach the last vertex but one, the largest index the loops emit
C28_Witness ==
    /\ sphere.built
    /\ sphere.sectors = 1
    /\ sphere.stacks >= 2
    /\ \E k \in 1..Len(sphere.inds) : sphere.inds[k] = Len(sphere.verts) - 2

\* the nodes met walking from n up the parent pointers, n first, at most
\* `steps` pointers followed
RECURSIVE ParentChain(_, _)
ParentChain(n, steps) ==
    IF n = 0 THEN <<>>
    ELSE IF steps = 0 THEN <<n>>
    ELSE <<n>> \o ParentChain(nodes[n].parent, steps - 1)

\* the elements of a sequence
Range(s) == {s[k] : k \in 1..Len(s)}

\* the nodes whose world matrix is composed through p: p is n or an ancestor
ComposedThrough(p) == {n \in LiveNodes : p \in Range(ParentChain(n, MaxNodes))}

\* C29: a node N has parent P exactly if N is in P's children list, and
\* UpdateHierarchy on P updates exactly the nodes whose world matrix is
\* composed through P.  (Stated as claimed; the code violates it.)
C29_ParentIffChild ==
    /\ \A n, p \in LiveNodes :
          nodes[n].parent = p <=> n \in Range(nodes[p].children)
    /\ lastCall.op = "UpdateHierarchy"
          => Range(lastCall.value) = ComposedThrough(lastCall.self)

\* the product of the local matrices of the nodes of a sequence, from the
\* last one down to the first
RECURSIVE LocalProduct(_)
LocalProduct(chain) ==
    IF Len(chain) = 1 THEN nodes[chain[1]].local
    ELSE MatMul(LocalProduct(Tail(chain)), nodes[chain[1]].local)

\* the parent chain of n ends at a node without parent
ReachesRoot(n) ==
    LET chain == ParentChain(n, MaxNodes)
    IN  Len(chain) <= MaxNodes /\ nodes[chain[Len(chain)]].parent = 0

\* C30: the parent chain of every node is finite and acyclic, and
\* GetWorldMatrix returns, with the product of the local matrices from the
\* root down to the node.  (Stated as claimed; the code violates it.)
C30_WorldMatrixTerminates ==
    /\ \A n \in LiveNodes : ReachesRoot(n)
    /\ lastCall.op = "GetWorldMatrix"
          => /\ lastCall.returned
             /\ lastCall.value = LocalProduct(ParentChain(lastCall.self, MaxNodes))

====
